---------------------------- MODULE Spec2Model ----------------------------
(***************************************************************************)
(* korner-media-service: replicated storage (two public object-storage     *)
(* backends behind a Redis cache), the private bucket, and the             *)
(* content-access decision cascade of the private routes.                  *)
(*                                                                         *)
(* Strings of the program (usernames, object keys, URL paths) are          *)
(* sequences of one-character tokens; the token "%78" stands for the       *)
(* three-character percent escape of "x".  Bytes of an object are          *)
(* identified by the number of the upload that wrote them.                 *)
(***************************************************************************)
EXTENDS Integers, Sequences, FiniteSets, TLC

\* ------------------------------------------------------------------ bounds
\* Uploads that may be started in one run (each writes fresh bytes).
MaxUploads == 2
\* getFile requests that may be started in one run.
MaxGets == 2
\* Public delete requests that may be started in one run.
MaxDeletes == 2

\* ----------------------------------------------------------------- strings
Undefined == <<"undefined">>

Falsy(s) == s = Undefined \/ s = <<>>

\* JavaScript a || b on strings
OrElse(a, b) == IF Falsy(a) THEN b ELSE a

startsWith_NoSlash(s, p) ==
    /\ Len(p) >= 1
    /\ Len(s) >= Len(p) - 1
    /\ SubSeq(s, 1, Len(p) - 1) = SubSeq(p, 1, Len(p) - 1)

\* String.prototype.startsWith
startsWith(s, p) == Len(s) >= Len(p) /\ SubSeq(s, 1, Len(p)) = p

\* String.prototype.replace with a string pattern: the first occurrence
replace(s, pattern, replacement) ==
    LET at == {i \in 1..Len(s) :
                  /\ i + Len(pattern) - 1 <= Len(s)
                  /\ SubSeq(s, i, i + Len(pattern) - 1) = pattern}
    IN  IF at = {} THEN s
        ELSE LET i == CHOOSE m \in at : \A n \in at : m <= n
             IN  SubSeq(s, 1, i - 1) \o replacement \o SubSeq(s, i + Len(pattern), Len(s))

Users == { <<"a">>, <<"a", "b">> }

\* `${username}/`
UserPrefix(u) == u \o <<"/">>

\* Keys of the private bucket that requests name.
PrivKeys == { <<"a", "/", "x">>, <<"a", "b", "/", "x">> }

\* ----------------------------------------------------------------- objects
NoObj == [bytes |-> 0, ct |-> "", cc |-> ""]

ImmutableCacheControl == "public, max-age=31536000, immutable"

SeedObj == [bytes |-> 1, ct |-> "video/mp4", cc |-> ImmutableCacheControl]

VARIABLES
    privBucket,   \* s3Client, bucket korner-*-private: key -> object
    req,          \* the request travelling through a private route
    s3Bucket,     \* s3Client, public bucket korner-*: key -> object
    ys3Bucket,    \* yandexS3, public bucket korner-*: key -> object
    cacheFile,    \* Redis file:<key> -> bytes (always set with a TTL)
    cacheMeta,    \* Redis metadata:<key> -> [ct, len, lm, ttl]
    up,           \* the public upload in flight
    del,          \* the public delete in flight
    get,          \* the getFile in flight
    pops,         \* detached cacheFileToRedis tasks and their next command
    count,        \* uploads, gets and deletes started so far
    hist,         \* history: keys issued, uploaded and deleted with success
    ren,          \* the rename job (renameUserFilesInAllBuckets)
    proc,         \* the Node process: "up", or "down" once it was terminated
    mv            \* the transfer of a bar's files (moveBarFilesToPrivateBucket)

privVars == <<privBucket, req>>

storeVars == <<s3Bucket, ys3Bucket, cacheFile, cacheMeta>>

pubVars == <<s3Bucket, ys3Bucket, cacheFile, cacheMeta, up, del, get, pops, count, hist,
             ren, proc, mv>>

vars == <<privBucket, req, s3Bucket, ys3Bucket, cacheFile, cacheMeta, up, del, get,
          pops, count, hist, ren, proc, mv>>

\* The process serves requests and runs continuations only while it is up.
Up == proc = "up"

\* --------------------------------------------------------- object store API
\* ContentLength and LastModified the store returns with an object
ContentLength(obj) == <<"length", obj.bytes>>

LastModified(obj) == <<"date", obj.bytes>>

Lookup(bucket, key) == IF key \in DOMAIN bucket THEN bucket[key] ELSE NoObj

HeadObject_AlwaysFound(bucket, key, net) ==
    IF net = "fail" THEN "error" ELSE "ok"

\* HeadObjectCommand: the SDK throws NotFound for a missing key.
HeadObject(bucket, key, net) ==
    IF net = "fail" THEN "error"
    ELSE IF Lookup(bucket, key) = NoObj THEN "NotFound" ELSE "ok"

\* DeleteObjectCommand: removing a missing key is not an error.
DeleteObject(bucket, key) == [k \in DOMAIN bucket \ {key} |-> bucket[k]]

\* PutObjectCommand
PutObject(bucket, key, obj) ==
    [k \in DOMAIN bucket \cup {key} |-> IF k = key THEN obj ELSE bucket[k]]

\* ------------------------------------------------------------ file names
Max(S) == CHOOSE m \in S : \A n \in S : n <= m

\* path.extname: from the last "." to the end; "" without one or when the
\* only "." leads the name.
extname(f) ==
    LET dots == {i \in 1..Len(f) : f[i] = "."}
    IN  IF dots = {} \/ Max(dots) = 1 THEN <<>> ELSE SubSeq(f, Max(dots), Len(f))

toLowerCase(f) == [i \in 1..Len(f) |-> IF f[i] = "X" THEN "x" ELSE f[i]]

\* generateSafeFilename: `${timestamp}-${randomId}-${suffix}` (the stem, fresh
\* for each call) followed by the lower-cased extension of the original name.
generateSafeFilename(stem, originalFilename) ==
    stem \o toLowerCase(extname(originalFilename))

\* ------------------------------------------------- main and billing clients
\* Each client call catches every transport failure (net = "fail") and
\* answers with its negative default.
getBarByFileKey_FailOpen(net, w) == net = "fail" \/ w.bar

getBarByFileKey(net, w) == net = "ok" /\ w.bar

isBarOwner_FailOpen(net, w) == net = "fail" \/ w.owner

isBarOwner(net, w) == net = "ok" /\ w.owner

hasUserPurchasedBar_Ignored(net, w) == FALSE

hasUserPurchasedBar_FailOpen(net, w) == net = "fail" \/ w.purchased

hasUserPurchasedBar(net, w) == net = "ok" /\ w.purchased

getActiveSubscriptionInfo_FailOpen(net, w) == net = "fail" \/ w.active

getActiveSubscriptionInfo(net, w) == net = "ok" /\ w.active

Net == {"ok", "fail"}

\* ------------------------------------------------------- the private routes
NoWorld == [bar |-> FALSE, owner |-> FALSE, purchased |-> FALSE, active |-> FALSE]

Worlds == [bar : BOOLEAN, owner : BOOLEAN, purchased : BOOLEAN, active : BOOLEAN]

IdleReq ==
    [pc |-> "idle", route |-> "none", token |-> "none",
     bodyKey |-> Undefined, paramsKey |-> Undefined, queryKey |-> Undefined,
     world |-> NoWorld, user |-> Undefined, fileKey |-> Undefined,
     calls |-> <<>>, failed |-> {}, positive |-> {},
     decision |-> "none", signed |-> Undefined, headed |-> Undefined,
     deleted |-> Undefined, status |-> 0, code |-> "none",
     sig |-> [op |-> "none", Bucket |-> "none", Key |-> Undefined, expiresIn |-> 0],
     signedUrl |-> <<>>, presignedUrl |-> <<>>, url |-> <<>>, signCalls |-> 0,
     nexts |-> 0, sent |-> 0, answer |-> "none", storageCalls |-> 0,
     s3Calls |-> <<>>]

KeyInputs == PrivKeys \cup {Undefined, <<>>}

Tokens == {"none", "badjwt", "valid"}

\* The requests a client can send: the route, the bearer token, the key fields
\* the route's handlers read (body.key, params.key, query.key), and the
\* answers the main and billing services hold for this user and key.
Requests ==
    [route : {"uploadPresign"}, token : Tokens, bodyKey : {Undefined},
     paramsKey : {Undefined}, queryKey : {Undefined},
     world : {w \in Worlds : ~w.bar /\ ~w.owner /\ ~w.purchased}]
    \cup
    [route : {"accessPresign"}, token : Tokens, bodyKey : KeyInputs,
     paramsKey : {Undefined}, queryKey : {Undefined}, world : Worlds]
    \cup
    [route : {"metadata"}, token : Tokens, bodyKey : PrivKeys \cup {Undefined},
     paramsKey : PrivKeys \cup {<<>>}, queryKey : {Undefined}, world : Worlds]
    \cup
    [route : {"deletePrivate"}, token : Tokens, bodyKey : {Undefined},
     paramsKey : {Undefined}, queryKey : KeyInputs, world : {NoWorld}]

\* The middleware after authenticateUser on each route.
AfterAuth(route) ==
    CASE route = "uploadPresign" -> "requireSubscription"
      [] route = "accessPresign" -> "checkContentAccess"
      [] route = "metadata"      -> "checkContentAccess"
      [] route = "deletePrivate" -> "deletePrivateFile"

\* The controller behind the gate on each route.
Handler(route) ==
    CASE route = "uploadPresign" -> "generateUploadPresignedUrl"
      [] route = "accessPresign" -> "generateAccessPresignedUrl"
      [] route = "metadata"      -> "getFileMetadata"
      [] route = "deletePrivate" -> "deletePrivateFile"

Respond(r, st, cd) ==
    [r EXCEPT !.pc = "done", !.status = st, !.code = cd, !.sent = @ + 1]

\* next() of a gate that let the request through
Allow_AlsoOnDeny(r) == [r EXCEPT !.pc = Handler(r.route)]

Allow(r) == [r EXCEPT !.pc = Handler(r.route), !.decision = "ALLOW", !.nexts = @ + 1]

Deny_CallsNext(r) == Allow_AlsoOnDeny([r EXCEPT !.decision = "DENY"])

Deny(r) == Respond([r EXCEPT !.decision = "DENY"], 403, "SUBSCRIPTION_REQUIRED")

Then_NoReturn(r, positive, nextCheck) ==
    IF positive THEN [Allow(r) EXCEPT !.pc = nextCheck] ELSE [r EXCEPT !.pc = nextCheck]

\* if (check) { next(); return; } and otherwise on to the next check
Then(r, positive, nextCheck) ==
    IF positive THEN Allow(r) ELSE [r EXCEPT !.pc = nextCheck]

Called(r, call, net, answer) ==
    [r EXCEPT !.calls = Append(@, call),
              !.failed = IF net = "fail" THEN @ \cup {call} ELSE @,
              !.positive = IF answer THEN @ \cup {call} ELSE @]

\* A client sends a request to one of the four private routes.
Request(r) ==
    /\ Up
    /\ req.pc = "idle"
    /\ req' = [IdleReq EXCEPT !.pc = "authenticateUser", !.route = r.route,
                              !.token = r.token, !.bodyKey = r.bodyKey,
                              !.paramsKey = r.paramsKey, !.queryKey = r.queryKey,
                              !.world = r.world]
    /\ UNCHANGED <<privBucket, pubVars>>

\* authenticateUser: token, local JWT check, then getUserByToken.
authenticateUser(answer, u) ==
    /\ Up
    /\ req.pc = "authenticateUser"
    /\ req' =
         IF req.token = "none" THEN Respond(req, 401, "BASE_AUTH_TOKEN_REQUIRED")
         ELSE IF req.token = "badjwt" THEN Respond(req, 401, "JWT_ERROR")
         ELSE IF answer = "throw" THEN Respond(req, 500, "SERVER_ERROR")
         ELSE IF answer = "unauthorized" THEN Respond(req, 401, "BASE_INVALID_ACCESS_TOKEN")
         ELSE IF answer = "not_found" \/ answer = "no_username"
              THEN Respond(req, 404, "PROFILE_NOTFOUND")
         ELSE [req EXCEPT !.user = u, !.pc = AfterAuth(req.route)]
    /\ UNCHANGED <<privBucket, pubVars>>

\* requireSubscription
requireSubscription(net) ==
    /\ Up
    /\ req.pc = "requireSubscription"
    /\ req' =
         IF req.user = Undefined THEN Respond(req, 401, "BASE_AUTH_TOKEN_REQUIRED")
         ELSE LET active == getActiveSubscriptionInfo(net, req.world)
                  r == Called(req, "subscription", net, active)
              IN  IF ~active THEN Deny(r) ELSE Allow(r)
    /\ UNCHANGED <<privBucket, pubVars>>

\* checkContentAccess, up to its first external call
checkContentAccess ==
    /\ Up
    /\ req.pc = "checkContentAccess"
    /\ req' =
         IF req.user = Undefined THEN Respond(req, 401, "BASE_AUTH_TOKEN_REQUIRED")
         ELSE LET fileKey == OrElse(req.bodyKey, req.paramsKey)
              IN  IF Falsy(fileKey) THEN Respond(req, 400, "BAD_REQUEST")
                  ELSE [req EXCEPT !.fileKey = fileKey, !.pc = "getBarByFileKey"]
    /\ UNCHANGED <<privBucket, pubVars>>

\* const bar = await getBarByFileKey(fileKey); if (bar) ...
checkContentAccess_bar(net) ==
    /\ Up
    /\ req.pc = "getBarByFileKey"
    /\ LET bar == getBarByFileKey(net, req.world)
           r == Called(req, "bar", net, FALSE)
       IN  req' = [r EXCEPT !.pc = IF bar THEN "isBarOwner" ELSE "getActiveSubscriptionInfo"]
    /\ UNCHANGED <<privBucket, pubVars>>

\* const ownerCheck = await isBarOwner(...); if (ownerCheck) next()
checkContentAccess_owner(net) ==
    /\ Up
    /\ req.pc = "isBarOwner"
    /\ LET ownerCheck == isBarOwner(net, req.world)
           r == Called(req, "owner", net, ownerCheck)
       IN  req' = Then(r, ownerCheck, "hasUserPurchasedBar")
    /\ UNCHANGED <<privBucket, pubVars>>

\* const purchaseCheck = await hasUserPurchasedBar(...); if (purchaseCheck) next()
checkContentAccess_purchase(net) ==
    /\ Up
    /\ req.pc = "hasUserPurchasedBar"
    /\ LET purchaseCheck == hasUserPurchasedBar(net, req.world)
           r == Called(req, "purchase", net, purchaseCheck)
       IN  req' = Then(r, purchaseCheck, "getActiveSubscriptionInfo")
    /\ UNCHANGED <<privBucket, pubVars>>

\* the subscription fallback and the 403
checkContentAccess_subscription(net) ==
    /\ Up
    /\ req.pc = "getActiveSubscriptionInfo"
    /\ LET active == getActiveSubscriptionInfo(net, req.world)
           r == Called(req, "subscription", net, active)
       IN  req' = IF active THEN Allow(r) ELSE Deny(r)
    /\ UNCHANGED <<privBucket, pubVars>>

\* getPrivateBucket() and getCdnDomain() outside prod
PrivateBucket == "korner-lol-private"

PrivateCdn == "https://cdn-private.korner.lol"

\* the endpoint the S3 client signs for
S3Origin == "https://s3.amazonaws.com/korner-lol-private"

\* { expiresIn: 3600 }
expiresIn == 3600

\* getSignedUrl(s3Client, command, {expiresIn}): the endpoint, the key as the
\* path, and the signature with its expiry as the query string
getSignedUrl(op, bucket, key, expires) ==
    [sig |-> [op |-> op, Bucket |-> bucket, Key |-> key, expiresIn |-> expires],
     url |-> <<S3Origin, "/">> \o key \o
             <<"?", "X-Amz-Expires=", ToString(expires), "&X-Amz-Signature=", op>>]

\* new URL(presignedUrl).search: from the first "?" to the end
search(url) ==
    LET at == {i \in 1..Len(url) : url[i] = "?"}
    IN  IF at = {} THEN <<>>
        ELSE SubSeq(url, CHOOSE i \in at : \A j \in at : i <= j, Len(url))

\* what the access route returns as presignedUrl
AccessUrl_Unsigned(key, signedUrl) == <<PrivateCdn, "/">> \o key

AccessUrl(key, signedUrl) == <<PrivateCdn, "/">> \o key \o search(signedUrl)

\* POST /access/presigned-url: signs a GET of body.key
generateAccessPresignedUrl(sign) ==
    /\ Up
    /\ req.pc = "generateAccessPresignedUrl"
    /\ req' =
         LET key == req.bodyKey
         IN  IF Falsy(key) THEN Respond(req, 400, "BAD_REQUEST")
             ELSE IF sign = "fail"
             THEN Respond([req EXCEPT !.signCalls = @ + 1], 500, "SERVER_ERROR")
             ELSE LET signed == getSignedUrl("GetObject", PrivateBucket, key, expiresIn)
                  IN  Respond([req EXCEPT !.signed = key, !.sig = signed.sig,
                                          !.signCalls = @ + 1,
                                          !.signedUrl = signed.url,
                                          !.presignedUrl = AccessUrl(key, signed.url)],
                              200, "none")
    /\ UNCHANGED <<privBucket, pubVars>>

\* GET /metadata/:key(*): heads params.key in the private bucket
getFileMetadata(net) ==
    /\ Up
    /\ req.pc = "getFileMetadata"
    /\ req' =
         LET key == req.paramsKey
         IN  IF Falsy(key) THEN Respond(req, 400, "BAD_REQUEST")
             ELSE LET r == [req EXCEPT !.headed = key]
                      h == HeadObject(privBucket, key, net)
                  IN  IF h = "ok" THEN Respond(r, 200, "none")
                      ELSE IF h = "NotFound" THEN Respond(r, 404, "BARS_FILE_NOT_FOUND")
                      ELSE Respond(r, 500, "SERVER_ERROR")
    /\ UNCHANGED <<privBucket, pubVars>>

\* POST /upload/private/presigned-url: signs a PUT of `${username}/${outputFilename}`
generateUploadPresignedUrl(filename, mimetype, stem, sign) ==
    /\ Up
    /\ req.pc = "generateUploadPresignedUrl"
    /\ req' =
         IF Falsy(filename) \/ Falsy(mimetype) THEN Respond(req, 400, "BAD_REQUEST")
         ELSE LET s3Key == UserPrefix(req.user) \o generateSafeFilename(stem, filename)
              IN  IF sign = "fail"
                  THEN Respond([req EXCEPT !.signCalls = @ + 1], 500, "SERVER_ERROR")
                  ELSE LET signed == getSignedUrl("PutObject", PrivateBucket, s3Key,
                                                  expiresIn)
                       IN  Respond([req EXCEPT !.signed = s3Key, !.sig = signed.sig,
                                               !.signCalls = @ + 1,
                                               !.signedUrl = signed.url,
                                               !.presignedUrl = signed.url,
                                               !.url = <<PrivateCdn, "/">> \o s3Key],
                                   200, "none")
    /\ UNCHANGED <<privBucket, pubVars>>

\* the prefix check of both delete paths
OwnsKey_NoSlash(username, key) == startsWith_NoSlash(key, UserPrefix(username))

OwnsKey(username, key) == startsWith(key, UserPrefix(username))

\* DELETE /delete (private): key and prefix checks, then the head call
deletePrivateFile(net) ==
    /\ Up
    /\ req.pc = "deletePrivateFile"
    /\ req' =
         LET key == req.queryKey
         IN  IF Falsy(key) THEN Respond(req, 400, "BAD_REQUEST")
             ELSE IF ~OwnsKey(req.user, key) THEN Respond(req, 403, "ACCESS_DENIED")
             ELSE LET h == HeadObject(privBucket, key, net)
                      r == [req EXCEPT !.headed = key,
                                       !.s3Calls = Append(@, <<"HeadObject", h>>)]
                  IN  IF h = "ok" THEN [r EXCEPT !.pc = "deletePrivateFile_delete"]
                      ELSE IF h = "NotFound" THEN Respond(r, 404, "FILE_NOT_FOUND")
                      ELSE Respond(r, 500, "SERVER_ERROR")
    /\ UNCHANGED <<privBucket, pubVars>>

\* ... then the delete call
deletePrivateFile_delete(net) ==
    /\ Up
    /\ req.pc = "deletePrivateFile_delete"
    /\ IF net = "fail"
       THEN /\ req' = Respond([req EXCEPT !.s3Calls = Append(@, <<"DeleteObject", "error">>)],
                               500, "SERVER_ERROR")
            /\ UNCHANGED privBucket
       ELSE /\ privBucket' = DeleteObject(privBucket, req.queryKey)
            /\ req' = Respond([req EXCEPT !.deleted = req.queryKey,
                                          !.s3Calls = Append(@, <<"DeleteObject", "ok">>)],
                              200, "none")
    /\ UNCHANGED pubVars

AuthAnswers == {"ok", "unauthorized", "not_found", "no_username", "throw"}

Filenames == {Undefined, <<"f", ".", "X">>}

Mimetypes == {Undefined, <<"v">>}

PrivStems == { <<"t">> }

PrivateNext ==
    \/ \E r \in Requests : Request(r)
    \/ \E answer \in AuthAnswers, u \in Users : authenticateUser(answer, u)
    \/ \E net \in Net : requireSubscription(net)
    \/ checkContentAccess
    \/ \E net \in Net : checkContentAccess_bar(net)
    \/ \E net \in Net : checkContentAccess_owner(net)
    \/ \E net \in Net : checkContentAccess_purchase(net)
    \/ \E net \in Net : checkContentAccess_subscription(net)
    \/ \E sign \in Net : generateAccessPresignedUrl(sign)
    \/ \E net \in Net : getFileMetadata(net)
    \/ \E f \in Filenames, m \in Mimetypes, stem \in PrivStems, sign \in Net :
          generateUploadPresignedUrl(f, m, stem, sign)
    \/ \E net \in Net : deletePrivateFile(net)
    \/ \E net \in Net : deletePrivateFile_delete(net)

\* ===================================================== the public routes
CdnOrigin == "https://cdn.korner.lol"

\* `${baseUrl}/${s3Key}`
PublicUrl(s3Key) == <<CdnOrigin, "/">> \o s3Key

\* new URL(url): a string that starts with an origin parses, and its pathname
\* is what follows the origin ("/" when nothing does); anything else throws.
ParseURL(url) ==
    IF Len(url) >= 1 /\ url[1] = CdnOrigin
    THEN [ok |-> TRUE, pathname |-> IF Len(url) = 1 THEN <<"/">> ELSE Tail(url)]
    ELSE [ok |-> FALSE, pathname |-> <<>>]

\* pathname.replace(/^\//, "")
StripLeadingSlash(path) ==
    IF Len(path) >= 1 /\ path[1] = "/" THEN Tail(path) ELSE path

\* decodeURIComponent: "%78" is an escape of "x"; a lone "%" is malformed.
Malformed(s) == \E i \in 1..Len(s) : s[i] = "%"

decodeURIComponent(s) == [i \in 1..Len(s) |-> IF s[i] = "%78" THEN "x" ELSE s[i]]

\* Promise.all over two calls: rejects on the first failure, fulfils when both
\* have succeeded.
PromiseAll_Settled(a, b) ==
    IF a = "pending" \/ b = "pending" THEN "pending" ELSE "fulfilled"

PromiseAll_Any(a, b) ==
    IF a = "ok" \/ b = "ok" THEN "fulfilled"
    ELSE IF a = "fail" /\ b = "fail" THEN "rejected"
    ELSE "pending"

PromiseAll(a, b) ==
    IF a = "fail" \/ b = "fail" THEN "rejected"
    ELSE IF a = "ok" /\ b = "ok" THEN "fulfilled"
    ELSE "pending"

\* The timestamp-and-random stem of the n-th generated filename.
Stem(n) == <<ToString(n)>>

\* Names clients upload files under.
UploadNames == { <<"f", ".", "x">>, <<"f", ".", "%78">> }

UploadTypes == {"application/pdf"}

\* Keys no upload of the run generates: objects that were stored earlier.
FixedKeys == { <<"a", "/", "0", ".", "x">>, <<"a", "b", "/", "0", ".", "x">> }

KnownKeys == hist.issued \cup FixedKeys

\* req.file of multer: the client's name and declared type, and the size
NoFile == [originalname |-> Undefined, mimetype |-> "none", size |-> 0]

IdleUp ==
    [pc |-> "idle", user |-> Undefined, key |-> Undefined, obj |-> NoObj,
     put1 |-> "none", put2 |-> "none", status |-> 0, url |-> Undefined,
     inFlight |-> FALSE, class |-> "none", file |-> NoFile, code |-> "none",
     buffer |-> "none", compressedLength |-> 0, format |-> "none"]

IdleDel ==
    [pc |-> "idle", user |-> Undefined, key |-> Undefined,
     d1 |-> "none", d2 |-> "none", evict |-> "none", status |-> 0, code |-> "none",
     again |-> FALSE, netFail |-> FALSE, pre |-> <<>>]

NoRes == [kind |-> "none", bytes |-> 0, ct |-> "", fromCache |-> FALSE,
          status |-> 0, code |-> "none", message |-> "none",
          len |-> <<"length", 0>>, lm |-> <<"date", 0>>]

IdleGet == [pc |-> "idle", key |-> Undefined, cached |-> 0, afterDelete |-> FALSE,
            expect |-> NoObj, netFail |-> FALSE, hit |-> FALSE, cachedCt |-> "",
            read |-> "none", res |-> NoRes, afterRemoval |-> "none",
            afterRename |-> "none", afterMove |-> FALSE, afterPopulation |-> FALSE]

\* ------------------------------------------------------------------ upload
uploadToBothBuckets_NoPrefix(username, buffer, outputFilename, contentType) ==
    [key |-> outputFilename,
     obj |-> [bytes |-> buffer, ct |-> contentType, cc |-> ImmutableCacheControl]]

\* uploadToBothBuckets: the key and the parameters both puts share.
uploadToBothBuckets(username, buffer, outputFilename, contentType) ==
    [key |-> UserPrefix(username) \o outputFilename,
     obj |-> [bytes |-> buffer, ct |-> contentType, cc |-> ImmutableCacheControl]]

MiB == 1024 * 1024

\* maxImageSize, maxAudioSize, maxVideoSize, maxFileSize
maxSize(class) ==
    CASE class = "image" -> 5 * MiB
      [] class = "audio" -> 100 * MiB
      [] class = "video" -> 100 * MiB
      [] class = "file"  -> 15 * MiB

\* allowedImageTypes, allowedAudioTypes, allowedVideoTypes, allowedTypes
allowedTypes(class) ==
    CASE class = "image" -> {"image/jpeg", "image/png", "image/gif", "image/webp"}
      [] class = "audio" -> {"audio/mpeg", "audio/wav", "audio/wave"}
      [] class = "video" -> {"video/mp4", "video/webm"}
      [] class = "file"  -> {"application/pdf", "application/vnd.ms-excel",
                             "application/vnd.openxmlformats-officedocument.spreadsheetml.sheet",
                             "text/csv"}

\* file.size > max...Size
ExceedsLimit_Inclusive(size, class) == size >= maxSize(class)

ExceedsLimit(size, class) == size > maxSize(class)

\* The two checks every upload method starts with, in their order.
Validate(class, file) ==
    IF ExceedsLimit(file.size, class) THEN "BAD_REQUEST"
    ELSE IF file.mimetype \notin allowedTypes(class) THEN "BARS_INVALID_FILE_TYPE"
    ELSE "ok"

UploadSlotFree ==
    /\ up.pc \in {"idle", "done"}
    /\ up.put1 # "pending" /\ up.put2 # "pending"
    /\ count.up < MaxUploads

\* throw new S3Error(code, ..., status), answered by handleError
RejectUpload(class, username, file, st, cd) ==
    [IdleUp EXCEPT !.pc = "done", !.class = class, !.user = username, !.file = file,
                   !.status = st, !.code = cd]

\* generateSafeFilename, then uploadToBothBuckets issues both puts
BeginUpload(class, username, file, name, contentType) ==
    LET n == count.up + 1
        outputFilename == generateSafeFilename(Stem(n), name)
        call == uploadToBothBuckets(username, n, outputFilename, contentType)
    IN  [IdleUp EXCEPT !.pc = "puts", !.class = class, !.user = username, !.file = file,
                       !.key = call.key, !.obj = call.obj,
                       !.put1 = "pending", !.put2 = "pending"]

IssuedBy(u) == IF u.key = Undefined THEN {} ELSE {u.key}

\* What sharp does with an image: the pages it finds, the length of its
\* output relative to the input's, and whether metadata() or toBuffer() throws.
SharpOutcomes == [pages : {1, 2}, delta : {0 - 1, 0, 1},
                  throws : {"none", "metadata", "toBuffer"}]

\* compressedGif.length < originalSize
GifIsSmaller(compressedLength, originalSize) == compressedLength < originalSize

\* originalSize > 0 && compressedBuffer.length > originalSize
WebpIsLarger(compressedLength, originalSize) ==
    originalSize > 0 /\ compressedLength > originalSize

\* compressImage: the bytes and the name it returns, or its throw.  format
\* tells which bytes buffer holds: the upload's own ("original"), the output
\* of sharp's .gif() or the output of sharp's .webp().
compressImage(file, sharp) ==
    LET originalSize == file.size
        compressedLength == file.size + sharp.delta
        original == [throws |-> FALSE, buffer |-> "original", format |-> "original",
                     outputFilename |-> file.originalname, skipConversion |-> TRUE]
        thrown == [throws |-> TRUE, buffer |-> "none", format |-> "none",
                   outputFilename |-> file.originalname, skipConversion |-> FALSE]
    IN  IF sharp.throws = "metadata" THEN thrown
        ELSE IF file.mimetype = "image/gif" /\ sharp.pages > 1
        THEN IF sharp.throws = "toBuffer" THEN original
             ELSE IF GifIsSmaller(compressedLength, originalSize)
             THEN [throws |-> FALSE, buffer |-> "compressed", format |-> "gif",
                   outputFilename |-> file.originalname, skipConversion |-> FALSE]
             ELSE original
        ELSE IF sharp.throws = "toBuffer" THEN thrown
        ELSE IF WebpIsLarger(compressedLength, originalSize) THEN original
        ELSE [throws |-> FALSE, buffer |-> "compressed", format |-> "webp",
              outputFilename |-> file.originalname \o <<".", "webp">>,
              skipConversion |-> FALSE]

\* POST /upload/image
uploadImage(username, file, sharp) ==
    /\ Up
    /\ UploadSlotFree
    /\ up' = IF Validate("image", file) # "ok"
             THEN RejectUpload("image", username, file, 400, Validate("image", file))
             ELSE LET compressed == compressImage(file, sharp)
                      contentType == IF compressed.skipConversion THEN file.mimetype
                                     ELSE "image/webp"
                  IN  IF compressed.throws
                      THEN RejectUpload("image", username, file, 500, "SERVER_ERROR")
                      ELSE [BeginUpload("image", username, file,
                                        compressed.outputFilename, contentType)
                              EXCEPT !.buffer = compressed.buffer,
                                     !.format = compressed.format,
                                     !.compressedLength =
                                         IF sharp.throws = "none"
                                         THEN file.size + sharp.delta ELSE 0]
    /\ hist' = [hist EXCEPT !.issued = @ \cup IssuedBy(up')]
    /\ count' = [count EXCEPT !.up = @ + 1]
    /\ UNCHANGED <<privVars, proc, ren, mv, storeVars, del, get, pops>>

\* uploadAudio, uploadVideo and uploadFile differ in their limits only
UploadMedia(class, username, file) ==
    /\ Up
    /\ UploadSlotFree
    /\ up' = IF Validate(class, file) # "ok"
             THEN RejectUpload(class, username, file, 400, Validate(class, file))
             ELSE BeginUpload(class, username, file, file.originalname, file.mimetype)
    /\ hist' = [hist EXCEPT !.issued = @ \cup IssuedBy(up')]
    /\ count' = [count EXCEPT !.up = @ + 1]
    /\ UNCHANGED <<privVars, proc, ren, mv, storeVars, del, get, pops>>

\* POST /upload/audio
uploadAudio(username, file) == UploadMedia("audio", username, file)

\* POST /upload/video
uploadVideo(username, file) == UploadMedia("video", username, file)

\* POST /upload/file
uploadFile(username, file) == UploadMedia("file", username, file)

\* s3Client.send(new PutObjectCommand(...))
uploadToBothBuckets_s3(net) ==
    /\ Up
    /\ up.put1 = "pending"
    /\ up' = [up EXCEPT !.put1 = net]
    /\ s3Bucket' = IF net = "ok" THEN PutObject(s3Bucket, up.key, up.obj) ELSE s3Bucket
    /\ UNCHANGED <<privVars, proc, ren, mv, ys3Bucket, cacheFile, cacheMeta, del, get, pops, count, hist>>

\* yandexS3.send(new PutObjectCommand(...))
uploadToBothBuckets_ys3(net) ==
    /\ Up
    /\ up.put2 = "pending"
    /\ up' = [up EXCEPT !.put2 = net]
    /\ ys3Bucket' = IF net = "ok" THEN PutObject(ys3Bucket, up.key, up.obj) ELSE ys3Bucket
    /\ UNCHANGED <<privVars, proc, ren, mv, s3Bucket, cacheFile, cacheMeta, del, get, pops, count, hist>>

\* await Promise.all([...]) settles; the handler answers 200 with the URL, or
\* the rejection reaches handleError (500).
uploadFile_return ==
    /\ Up
    /\ up.pc = "puts"
    /\ LET all == PromiseAll(up.put1, up.put2)
       IN  /\ all # "pending"
           /\ up' = IF all = "fulfilled"
                    THEN [up EXCEPT !.pc = "done", !.status = 200, !.url = PublicUrl(up.key)]
                    ELSE [up EXCEPT !.pc = "done", !.status = 500, !.code = "SERVER_ERROR",
                                    !.inFlight = "pending" \in {up.put1, up.put2}]
           /\ hist' = IF all = "fulfilled"
                      THEN [hist EXCEPT !.uploaded = @ \cup {[key |-> up.key, obj |-> up.obj]}]
                      ELSE hist
    /\ UNCHANGED <<privVars, proc, ren, mv, storeVars, del, get, pops, count>>

\* ------------------------------------------------------------------ delete
RejectDel(username, st, cd) ==
    [IdleDel EXCEPT !.pc = "done", !.user = username, !.status = st, !.code = cd]

\* S3Service.deleteFile up to the call of deleteFromBothBuckets, which issues
\* both backend deletes.
deleteFile(username, url) ==
    /\ Up
    /\ del.pc \in {"idle", "done"}
    /\ del.d1 # "pending" /\ del.d2 # "pending"
    /\ count.del < MaxDeletes
    /\ del' =
         IF Falsy(url) THEN RejectDel(username, 400, "BARS_INVALID_INPUT")
         ELSE LET urlObj == ParseURL(url)
                  key == StripLeadingSlash(urlObj.pathname)
              IN  IF ~urlObj.ok THEN RejectDel(username, 400, "BARS_INVALID_INPUT")
                  ELSE IF Falsy(key) \/ ~OwnsKey(username, key)
                       THEN [RejectDel(username, 403, "BARS_ACCESS_DENIED") EXCEPT !.key = key]
                  ELSE [IdleDel EXCEPT !.pc = "deleting", !.user = username, !.key = key,
                                       !.d1 = "pending", !.d2 = "pending",
                                       !.again = key \in hist.deleted,
                                       !.pre = <<s3Bucket, ys3Bucket, cacheFile, cacheMeta>>]
    /\ count' = [count EXCEPT !.del = @ + 1]
    /\ UNCHANGED <<privVars, proc, ren, mv, storeVars, up, get, pops, hist>>

\* The outcome of a DeleteObjectCommand: a backend answers a delete of a key
\* it does not hold like any other, so only the transport decides.
DeleteOutcome_NoSuchKey(bucket, key, net) ==
    IF key \notin DOMAIN bucket THEN "fail" ELSE net

DeleteOutcome(bucket, key, net) == net

\* s3Client.send(new DeleteObjectCommand(...))
deleteFromBothBuckets_s3(net) ==
    /\ Up
    /\ del.d1 = "pending"
    /\ del' = [del EXCEPT !.d1 = DeleteOutcome(s3Bucket, del.key, net),
                          !.netFail = @ \/ net = "fail"]
    /\ s3Bucket' = IF net = "ok" THEN DeleteObject(s3Bucket, del.key) ELSE s3Bucket
    /\ UNCHANGED <<privVars, proc, ren, mv, ys3Bucket, cacheFile, cacheMeta, up, get, pops, count, hist>>

\* yandexS3.send(new DeleteObjectCommand(...))
deleteFromBothBuckets_ys3(net) ==
    /\ Up
    /\ del.d2 = "pending"
    /\ del' = [del EXCEPT !.d2 = DeleteOutcome(ys3Bucket, del.key, net),
                          !.netFail = @ \/ net = "fail"]
    /\ ys3Bucket' = IF net = "ok" THEN DeleteObject(ys3Bucket, del.key) ELSE ys3Bucket
    /\ UNCHANGED <<privVars, proc, ren, mv, s3Bucket, cacheFile, cacheMeta, up, get, pops, count, hist>>

\* redis.del([cacheKey, metadataKey]): one command removes both entries
RedisDel(cache, key) == [k \in DOMAIN cache \ {key} |-> cache[k]]

\* after Promise.all fulfilled: await redis.del([...]) takes effect in Redis
deleteFromBothBuckets_del(net) ==
    /\ Up
    /\ del.pc = "deleting"
    /\ PromiseAll(del.d1, del.d2) = "fulfilled"
    /\ del.evict = "none"
    /\ del' = [del EXCEPT !.evict = net, !.netFail = @ \/ net = "fail"]
    /\ cacheFile' = IF net = "ok" THEN RedisDel(cacheFile, del.key) ELSE cacheFile
    /\ cacheMeta' = IF net = "ok" THEN RedisDel(cacheMeta, del.key) ELSE cacheMeta
    /\ UNCHANGED <<privVars, proc, ren, mv, s3Bucket, ys3Bucket, up, get, pops, count, hist>>

\* deleteFromBothBuckets has resolved or thrown: the handler answers
deleteFile_return ==
    /\ Up
    /\ del.pc = "deleting"
    /\ LET all == PromiseAll(del.d1, del.d2)
           ok == all = "fulfilled" /\ del.evict = "ok"
       IN  /\ all = "rejected" \/ del.evict # "none"
           /\ del' = IF ok THEN [del EXCEPT !.pc = "done", !.status = 200]
                     ELSE [del EXCEPT !.pc = "done", !.status = 500, !.code = "SERVER_ERROR"]
           /\ hist' = IF ok THEN [hist EXCEPT !.deleted = @ \cup {del.key}] ELSE hist
    /\ UNCHANGED <<privVars, proc, ren, mv, storeVars, up, get, pops, count>>

\* ----------------------------------------------------------------- getFile
\* The object a successful upload stored under the key, if there was one.
Uploaded(key) ==
    IF \E r \in hist.uploaded : r.key = key
    THEN (CHOOSE r \in hist.uploaded : r.key = key).obj
    ELSE NoObj

\* The response of the getFile controller: the file, or the catch block's
\* { error: "File not found" } and { error: "Failed to retrieve file" },
\* which carry no code.
getFile_response(kind, bytes, ct, fromCache) ==
    [kind |-> kind, bytes |-> bytes, ct |-> ct, fromCache |-> fromCache,
     status |-> CASE kind = "ok" -> 200 [] kind = "notfound" -> 404 [] kind = "error" -> 500,
     code |-> "none",
     message |-> CASE kind = "ok" -> "none"
                   [] kind = "notfound" -> "File not found"
                   [] kind = "error" -> "Failed to retrieve file",
     len |-> NoRes.len, lm |-> NoRes.lm]

Failed(g) ==
    [g EXCEPT !.pc = "done", !.netFail = TRUE,
              !.res = getFile_response("error", 0, "", FALSE)]

Done(g, kind, bytes, ct, fromCache) ==
    [g EXCEPT !.pc = "done", !.res = getFile_response(kind, bytes, ct, fromCache)]

\* cachedMetadata?.ContentType: hgetall of a key Redis does not hold is {}
cachedContentType_Expiring(meta, key) ==
    IF key \in DOMAIN meta /\ meta[key].ttl THEN meta[key].ct ELSE ""

cachedContentType(meta, key) == IF key \in DOMAIN meta THEN meta[key].ct ELSE ""

\* if (cachedMetadata?.ContentType)
HasContentType_Always(ct) == TRUE

HasContentType(ct) == ct # ""

\* Whether the last deleteFile was of this key, has answered, and its delete
\* on the read backend (yandexS3) succeeded; and what it answered.
Removal(key) ==
    IF del.pc = "done" /\ del.key = key /\ del.d2 = "ok"
    THEN (IF del.status = 200 THEN "success" ELSE "failure")
    ELSE "none"

\* Whether the getFile before this one was of the same key, missed the cache
\* and read the object, and the population it started has run its three
\* commands and left both entries, the metadata with its TTL.
Populated(key) ==
    /\ get.pc = "done" /\ get.key = key /\ get.read = "found"
    /\ \A p \in pops : p.key # key
    /\ key \in DOMAIN cacheFile
    /\ key \in DOMAIN cacheMeta /\ cacheMeta[key].ttl

\* Whether the file transfer has returned and named key in movedFiles.
MoveReported(key) ==
    mv.pc = "done" /\ \E n \in 1..Len(mv.result.movedFiles) : mv.result.movedFiles[n] = key

\* The keys the rename job, once returned, has counted as renamed in the
\* bucket getFile reads (the third of its buckets array): head, copy and
\* delete were all answered ok.
RenamedInReadBucket ==
    IF ren.pc # "done" THEN {}
    ELSE {o[2] : o \in {x \in ren.ops : x[1] = 3 /\ x[3] = "delete" /\ x[4] = "ok"}}

\* Whether key is the old or the new key of an object counted as renamed.
RenameReported(key) ==
    IF key \in RenamedInReadBucket THEN "old"
    ELSE IF \E k \in RenamedInReadBucket :
               replace(k, UserPrefix(ren.oldUsername), UserPrefix(ren.newUsername)) = key
    THEN "new"
    ELSE "none"

\* GET /:key reaches S3Service.getFile: const cached = await redis.getBuffer(cacheKey)
getFile(key, net) ==
    /\ Up
    /\ get.pc \in {"idle", "done"}
    /\ count.get < MaxGets
    /\ LET g == [IdleGet EXCEPT !.key = key, !.afterDelete = key \in hist.deleted,
                                 !.afterRemoval = Removal(key),
                                 !.afterRename = RenameReported(key),
                                 !.afterMove = MoveReported(key),
                                 !.afterPopulation = Populated(key),
                                 !.expect = Uploaded(key),
                                 !.hit = /\ key \in DOMAIN cacheFile
                                         /\ key \in DOMAIN cacheMeta
                                         /\ cacheMeta[key].ct # ""]
       IN  get' = IF net = "fail" THEN Failed(g)
                  ELSE IF key \in DOMAIN cacheFile
                       THEN [g EXCEPT !.pc = "hgetall", !.cached = cacheFile[key]]
                  ELSE [g EXCEPT !.pc = "GetObject"]
    /\ count' = [count EXCEPT !.get = @ + 1]
    /\ UNCHANGED <<privVars, proc, ren, mv, storeVars, up, del, pops, hist>>

\* const cachedMetadata = await redis.hgetall(metadataKey); if (cachedMetadata?.ContentType)
getFile_hgetall(net) ==
    /\ Up
    /\ get.pc = "hgetall"
    /\ get' = IF net = "fail" THEN Failed(get)
              ELSE LET ct == cachedContentType(cacheMeta, get.key)
                       g == [get EXCEPT !.cachedCt = ct]
                       cachedMetadata == IF get.key \in DOMAIN cacheMeta
                                         THEN cacheMeta[get.key] ELSE NoRes
                   IN  IF HasContentType(ct)
                       THEN [Done(g, "ok", get.cached, ct, TRUE)
                               EXCEPT !.res.len = cachedMetadata.len,
                                      !.res.lm = cachedMetadata.lm]
                       ELSE [g EXCEPT !.pc = "GetObject"]
    /\ UNCHANGED <<privVars, proc, ren, mv, storeVars, up, del, pops, count, hist>>

cacheFileToRedis_NoLength(key, obj) ==
    [key |-> key, bytes |-> obj.bytes, ct |-> obj.ct, len |-> NoRes.len,
     lm |-> LastModified(obj), cmd |-> "setex"]

\* void cacheFileToRedis(key, buffer, ContentType, ContentLength, LastModified):
\* the task and what it will write
cacheFileToRedis(key, obj) ==
    [key |-> key, bytes |-> obj.bytes, ct |-> obj.ct, len |-> ContentLength(obj),
     lm |-> LastModified(obj), cmd |-> "setex"]

\* The read of yandexS3 with the decoded key.  For a missing key the SDK
\* rejects with NoSuchKey (body = "throws"); the handler's own branch for a
\* response without Body is kept (body = "absent").
getFile_GetObject(net, body) ==
    /\ Up
    /\ get.pc = "GetObject"
    /\ IF Malformed(get.key)
       THEN /\ get' = Done(get, "error", 0, "", FALSE)
            /\ pops' = pops
       ELSE IF net = "fail"
       THEN /\ get' = Failed(get)
            /\ pops' = pops
       ELSE LET obj == Lookup(ys3Bucket, decodeURIComponent(get.key))
            IN  IF obj = NoObj
                THEN /\ get' = LET g == [get EXCEPT !.read = "missing"]
                               IN  IF body = "throws" THEN Done(g, "error", 0, "", FALSE)
                                   ELSE Done(g, "notfound", 0, "", FALSE)
                     /\ pops' = pops
                ELSE /\ get' = [Done([get EXCEPT !.read = "found"], "ok", obj.bytes,
                                     IF obj.ct = "" THEN "application/octet-stream"
                                     ELSE obj.ct,
                                     FALSE)
                                  EXCEPT !.res.len = ContentLength(obj),
                                         !.res.lm = LastModified(obj)]
                     /\ pops' = pops \cup {cacheFileToRedis(get.key, obj)}
    /\ UNCHANGED <<privVars, proc, ren, mv, storeVars, up, del, count, hist>>

\* ------------------------------------------------ detached cache population
\* cacheFileToRedis issues setex, hset and expire on the one Redis connection,
\* which applies them in that order; each may fail on its own.
\* What the runtime does with a rejected promise nobody handles: older
\* versions print a warning, current ones terminate the process.
Runtimes == {"warn", "terminate"}

\* `void cacheFileToRedis(...)`: the promise has no rejection handler, so a
\* failed command is an unhandled rejection.
UnhandledRejection(net, runtime) ==
    IF net = "fail" /\ runtime = "terminate" THEN "down" ELSE "up"

\* The tasks left after a command of p was answered: p goes on to its next
\* command (the three were issued together), and every task ends with the
\* process.
Advance(p, cmd, after) ==
    IF after = "down" THEN {}
    ELSE IF cmd = "end" THEN pops \ {p}
    ELSE (pops \ {p}) \cup {[p EXCEPT !.cmd = cmd]}

\* redis.setex(cacheKey, cacheValues.day, buffer)
cacheFileToRedis_setex(p, net, runtime) ==
    /\ Up
    /\ p \in pops /\ p.cmd = "setex"
    /\ pops' = Advance(p, "hset", UnhandledRejection(net, runtime))
    /\ cacheFile' = IF net = "ok"
                    THEN [k \in DOMAIN cacheFile \cup {p.key} |->
                            IF k = p.key THEN p.bytes ELSE cacheFile[k]]
                    ELSE cacheFile
    /\ proc' = UnhandledRejection(net, runtime)
    /\ UNCHANGED <<privVars, s3Bucket, ys3Bucket, cacheMeta, up, del, get, count, hist, ren, mv>>

\* redis.hset(metadataKey, {ContentType: contentType || "", ...})
cacheFileToRedis_hset(p, net, runtime) ==
    /\ Up
    /\ p \in pops /\ p.cmd = "hset"
    /\ pops' = Advance(p, "expire", UnhandledRejection(net, runtime))
    /\ cacheMeta' = IF net = "ok"
                    THEN [k \in DOMAIN cacheMeta \cup {p.key} |->
                            IF k = p.key
                            THEN [ct |-> p.ct, len |-> p.len, lm |-> p.lm,
                                  ttl |-> p.key \in DOMAIN cacheMeta /\ cacheMeta[p.key].ttl]
                            ELSE cacheMeta[k]]
                    ELSE cacheMeta
    /\ proc' = UnhandledRejection(net, runtime)
    /\ UNCHANGED <<privVars, s3Bucket, ys3Bucket, cacheFile, up, del, get, count, hist, ren, mv>>

\* redis.expire(metadataKey, cacheValues.day)
cacheFileToRedis_expire(p, net, runtime) ==
    /\ Up
    /\ p \in pops /\ p.cmd = "expire"
    /\ pops' = Advance(p, "end", UnhandledRejection(net, runtime))
    /\ cacheMeta' = IF net = "ok" /\ p.key \in DOMAIN cacheMeta
                    THEN [cacheMeta EXCEPT ![p.key].ttl = TRUE]
                    ELSE cacheMeta
    /\ proc' = UnhandledRejection(net, runtime)
    /\ UNCHANGED <<privVars, s3Bucket, ys3Bucket, cacheFile, up, del, get, count, hist, ren, mv>>

\* Redis drops an entry: its TTL ran out (only an entry that has one), or it
\* was evicted to free memory.
redis_drop(entry, k, why) ==
    /\ Up
    /\ IF entry = "file"
       THEN /\ k \in DOMAIN cacheFile
            /\ cacheFile' = [j \in DOMAIN cacheFile \ {k} |-> cacheFile[j]]
            /\ UNCHANGED cacheMeta
       ELSE /\ k \in DOMAIN cacheMeta
            /\ why = "expired" => cacheMeta[k].ttl
            /\ cacheMeta' = [j \in DOMAIN cacheMeta \ {k} |-> cacheMeta[j]]
            /\ UNCHANGED cacheFile
    /\ UNCHANGED <<privVars, proc, ren, mv, s3Bucket, ys3Bucket, up, del, get, pops, count, hist>>

\* ------------------------------------------------------------ client inputs
DeleteUrls ==
    {Undefined, <<>>, <<"cdn.korner.lol">>, <<CdnOrigin>>}
    \cup {PublicUrl(k) : k \in KnownKeys}
    \cup {<<CdnOrigin, "/", "/">> \o k : k \in FixedKeys}

GetKeys == KnownKeys \cup { <<"a", "/", "%">> }

\* Files that pass the validation of POST /upload/file.
ValidFiles == [originalname : UploadNames, mimetype : UploadTypes, size : {MiB}]

\* Files around the limits of every class, of allowed and other types.
EdgeSizes == {5 * MiB, 5 * MiB + 1, 15 * MiB, 15 * MiB + 1, 100 * MiB, 100 * MiB + 1}

EdgeTypes == {"image/png", "image/gif", "audio/wav", "video/webm", "text/csv", "text/html"}

EdgeFiles == [originalname : { <<"f", ".", "x">> }, mimetype : EdgeTypes, size : EdgeSizes]

\* Every upload route with files around its limits, from empty stores.
ValidateNext ==
    \/ \E u \in Users, file \in EdgeFiles, sharp \in SharpOutcomes :
          uploadImage(u, file, sharp)
    \/ \E u \in Users, file \in EdgeFiles : uploadAudio(u, file)
    \/ \E u \in Users, file \in EdgeFiles : uploadVideo(u, file)
    \/ \E u \in Users, file \in EdgeFiles : uploadFile(u, file)
    \/ \E net \in Net : uploadToBothBuckets_s3(net)
    \/ \E net \in Net : uploadToBothBuckets_ys3(net)
    \/ uploadFile_return

UploadNext ==
    \/ \E u \in Users, file \in ValidFiles : uploadFile(u, file)
    \/ \E net \in Net : uploadToBothBuckets_s3(net)
    \/ \E net \in Net : uploadToBothBuckets_ys3(net)
    \/ uploadFile_return

DeleteNext ==
    \/ \E u \in Users, url \in DeleteUrls : deleteFile(u, url)
    \/ \E net \in Net : deleteFromBothBuckets_s3(net)
    \/ \E net \in Net : deleteFromBothBuckets_ys3(net)
    \/ \E net \in Net : deleteFromBothBuckets_del(net)
    \/ deleteFile_return

GetNext ==
    \/ \E k \in GetKeys, net \in Net : getFile(k, net)
    \/ \E net \in Net : getFile_hgetall(net)
    \/ \E net \in Net, body \in {"throws", "absent"} : getFile_GetObject(net, body)
    \/ \E p \in pops, net \in Net, runtime \in Runtimes :
          cacheFileToRedis_setex(p, net, runtime)
    \/ \E p \in pops, net \in Net, runtime \in Runtimes :
          cacheFileToRedis_hset(p, net, runtime)
    \/ \E p \in pops, net \in Net, runtime \in Runtimes :
          cacheFileToRedis_expire(p, net, runtime)

\* The rename job before it is called.
IdleRen ==
    [pc |-> "idle", oldUsername |-> Undefined, newUsername |-> Undefined, b |-> 0,
     continuationToken |-> 0, Contents |-> <<>>, NextContinuationToken |-> 0, i |-> 0,
     headResponse |-> NoObj, filesRenamed |-> 0, errors |-> <<>>,
     totalFilesRenamed |-> 0, allErrors |-> <<>>,
     result |-> [success |-> FALSE, filesRenamed |-> 0, errors |-> <<>>],
     orig |-> <<>>, ops |-> {}]

\* The file transfer before it is called.
IdleMv ==
    [pc |-> "idle", fileUrls |-> <<>>, i |-> 0, s3Key |-> Undefined,
     fileMetadata |-> NoObj, bodyBuffer |-> 0, movedFiles |-> <<>>, ops |-> <<>>,
     result |-> [success |-> FALSE, movedFiles |-> <<>>]]

PubIdle ==
    /\ ren = IdleRen
    /\ mv = IdleMv
    /\ up = IdleUp
    /\ del = IdleDel
    /\ get = IdleGet
    /\ pops = {}
    /\ count = [up |-> 0, get |-> 0, del |-> 0]
    /\ hist = [issued |-> {}, uploaded |-> {}, deleted |-> {}]
    /\ proc = "up"

EmptyStores ==
    /\ s3Bucket = <<>>
    /\ ys3Bucket = <<>>
    /\ cacheFile = <<>>
    /\ cacheMeta = <<>>

PrivIdle ==
    /\ privBucket = <<>>
    /\ req = IdleReq

\* Objects stored before the run: a key is in both backends, in one, or in
\* neither, and is cached or not.
Seeded(S1, S2, SC) ==
    /\ s3Bucket = [k \in S1 |-> SeedObj]
    /\ ys3Bucket = [k \in S2 |-> SeedObj]
    /\ cacheFile = [k \in SC |-> SeedObj.bytes]
    /\ cacheMeta = [k \in SC |-> [ct |-> SeedObj.ct, len |-> ContentLength(SeedObj),
                                  lm |-> LastModified(SeedObj), ttl |-> TRUE]]

\* Uploads and reads under concurrency, from empty stores.
Init == PrivIdle /\ EmptyStores /\ PubIdle

SpecUpload == Init /\ [][UploadNext \/ GetNext]_vars

SpecValidate == Init /\ [][ValidateNext]_vars

\* Uploads and reads while the cache loses entries.
CacheNext ==
    \/ UploadNext
    \/ GetNext
    \/ \E entry \in {"file", "metadata"}, k \in GetKeys, why \in {"expired", "evicted"} :
          redis_drop(entry, k, why)

SpecCache == Init /\ [][CacheNext]_vars

\* Deletes and reads under concurrency, over objects stored earlier.
RaceInit ==
    /\ PrivIdle
    /\ PubIdle
    /\ \E S \in SUBSET FixedKeys : Seeded(S, S, {})

Next == DeleteNext \/ GetNext

Spec == RaceInit /\ [][Next]_vars

\* Deletes one request at a time, public or private, over any stored content.
DeleteRequests == {r \in Requests : r.route = "deletePrivate"}

SerialInit ==
    /\ \E S \in SUBSET PrivKeys : privBucket = [k \in S |-> SeedObj]
    /\ req = IdleReq
    /\ PubIdle
    /\ \E S1 \in SUBSET FixedKeys, S2 \in SUBSET FixedKeys, SC \in SUBSET FixedKeys :
          Seeded(S1, S2, SC)

NoDeleteRunning == del.pc \in {"idle", "done"} /\ del.d1 # "pending" /\ del.d2 # "pending"

SerialNext ==
    \/ \E u \in Users, url \in DeleteUrls :
          req.pc \in {"idle", "done"} /\ deleteFile(u, url)
    \/ \E net \in Net : deleteFromBothBuckets_s3(net)
    \/ \E net \in Net : deleteFromBothBuckets_ys3(net)
    \/ \E net \in Net : deleteFromBothBuckets_del(net)
    \/ deleteFile_return
    \/ \E r \in DeleteRequests : NoDeleteRunning /\ Request(r)
    \/ \E answer \in AuthAnswers, u \in Users : authenticateUser(answer, u)
    \/ \E net \in Net : deletePrivateFile(net)
    \/ \E net \in Net : deletePrivateFile_delete(net)

SpecDelete == SerialInit /\ [][SerialNext]_vars

\* Every request that creates or removes objects, in any sequence: uploads
\* and deletes of the public routes, and a presigned upload or a delete of the
\* private routes.
OwnerRequests == {r \in Requests : r.route \in {"uploadPresign", "deletePrivate"}}

NoUploadRunning == up.pc \in {"idle", "done"} /\ up.put1 # "pending" /\ up.put2 # "pending"

\* The public and the private routes work on different buckets: a run is of
\* public requests, one at a time, or of one private request.
NoRequestRunning == NoDeleteRunning /\ NoUploadRunning /\ req.pc = "idle"

NoPublicRequest == count.up = 0 /\ count.del = 0

OwnerFiles == {file \in ValidFiles : file.originalname = <<"f", ".", "x">>}

\* URLs of every object stored or uploaded, whoever owns it
OwnerUrls == {PublicUrl(k) : k \in KnownKeys}

OwnersInit ==
    /\ \E S \in SUBSET PrivKeys : privBucket = [k \in S |-> SeedObj]
    /\ req = IdleReq
    /\ PubIdle
    /\ \E S \in SUBSET FixedKeys : Seeded(S, S, {})

OwnersNext ==
    \/ \E u \in Users, file \in OwnerFiles :
          NoRequestRunning /\ uploadFile(u, file)
    \/ \E net \in Net : uploadToBothBuckets_s3(net)
    \/ \E net \in Net : uploadToBothBuckets_ys3(net)
    \/ uploadFile_return
    \/ \E u \in Users, url \in OwnerUrls :
          NoRequestRunning /\ deleteFile(u, url)
    \/ \E net \in Net : deleteFromBothBuckets_s3(net)
    \/ \E net \in Net : deleteFromBothBuckets_ys3(net)
    \/ \E net \in Net : deleteFromBothBuckets_del(net)
    \/ deleteFile_return
    \/ \E r \in OwnerRequests : NoPublicRequest /\ Request(r)
    \/ \E answer \in AuthAnswers, u \in Users : authenticateUser(answer, u)
    \/ \E net \in Net : requireSubscription(net)
    \/ \E f \in Filenames, m \in Mimetypes, stem \in PrivStems, sign \in Net :
          generateUploadPresignedUrl(f, m, stem, sign)
    \/ \E net \in Net : deletePrivateFile(net)
    \/ \E net \in Net : deletePrivateFile_delete(net)

SpecOwners == OwnersInit /\ [][OwnersNext]_vars

\* The private routes, one request, over any content of the private bucket.
PrivInit ==
    /\ \E S \in SUBSET PrivKeys : privBucket = [k \in S |-> SeedObj]
    /\ req = IdleReq
    /\ EmptyStores /\ PubIdle

SpecPrivate == PrivInit /\ [][PrivateNext]_vars

\* Reads only, over objects stored earlier, one of them without a content
\* type (GetObject's ContentType is optional), from an empty cache.
RereadInit ==
    /\ PrivIdle
    /\ PubIdle
    /\ \E S \in SUBSET FixedKeys :
          /\ s3Bucket = [k \in S |-> IF k[1] = "a" /\ k[2] = "b"
                                     THEN [SeedObj EXCEPT !.ct = ""] ELSE SeedObj]
          /\ ys3Bucket = s3Bucket
    /\ cacheFile = <<>> /\ cacheMeta = <<>>

SpecReread == RereadInit /\ [][GetNext]_vars

\* ------------------------------------- identity on the public and storage routes
\* The routes of the public and the storage routers that need a user.
PublicRoutes == {"uploadImage", "uploadAudio", "uploadVideo", "uploadFile", "deleteFile"}

StorageRoutes == {"getUsage", "listFiles"}

\* getUserByToken: what the service sees of the main service's answer.
\* user tells whether response.data is there, username is its username field.
getUserByToken(answer, u) ==
    CASE answer = "ok"           -> [user |-> TRUE, username |-> u, error |-> Undefined]
      [] answer = "no_username"  -> [user |-> TRUE, username |-> Undefined,
                                     error |-> Undefined]
      [] answer = "unauthorized" -> [user |-> FALSE, username |-> Undefined,
                                     error |-> <<"unauthorized">>]
      [] answer = "not_found"    -> [user |-> FALSE, username |-> Undefined,
                                     error |-> <<"not_found">>]

IdentityResult(status, code, username) ==
    [status |-> status, code |-> code, username |-> username]

\* authorizeAndGetUsername, with the status its caller getAuthorizedUsername
\* derives from the code (401 for the codes named AUTH..., else 404)
authorizeAndGetUsername(token, answer, u) ==
    IF token = "none" THEN IdentityResult(404, "BASE_AUTH_TOKEN_REQUIRED", Undefined)
    ELSE IF token = "badjwt" THEN IdentityResult(404, "JWT_ERROR", Undefined)
    ELSE LET res == getUserByToken(answer, u)
         IN  IF res.error = <<"not_found">> \/ ~res.user \/ Falsy(res.username)
             THEN IdentityResult(404, "PROFILE_NOTFOUND", Undefined)
             ELSE IF res.error = <<"unauthorized">>
             THEN IdentityResult(401, "AUTH_USER_NOT_EXIST", Undefined)
             ELSE IdentityResult(0, "none", res.username)

\* getUsernameFromToken: no local JWT check, the statuses are its own
getUsernameFromToken(token, answer, u) ==
    IF token = "none" THEN IdentityResult(401, "BASE_AUTH_TOKEN_REQUIRED", Undefined)
    ELSE LET res == getUserByToken(answer, u)
         IN  IF res.error = <<"not_found">> \/ ~res.user \/ Falsy(res.username)
             THEN IdentityResult(404, "PROFILE_NOTFOUND", Undefined)
             ELSE IF res.error = <<"unauthorized">>
             THEN IdentityResult(401, "BASE_INVALID_ACCESS_TOKEN", Undefined)
             ELSE IdentityResult(0, "none", res.username)

\* whether the function calls getUserByToken for this token
AsksMainService(route, token) ==
    IF route \in StorageRoutes THEN token # "none" ELSE token = "valid"

\* A client sends a request to a public or a storage route.
PublicRequest(route, token) ==
    /\ Up
    /\ req.pc = "idle"
    /\ req' = [IdleReq EXCEPT !.pc = "getAuthorizedUsername", !.route = route,
                              !.token = token]
    /\ UNCHANGED <<privBucket, pubVars>>

\* getAuthorizedUsername of the two controllers: the error answer, or the
\* username for the handler; a rejection of getUserByToken reaches the
\* handler's catch.
getAuthorizedUsername(answer, u) ==
    /\ Up
    /\ req.pc = "getAuthorizedUsername"
    /\ LET asked == AsksMainService(req.route, req.token)
           r == [req EXCEPT !.answer = IF asked THEN answer ELSE "none"]
           result == IF req.route \in StorageRoutes
                     THEN getUsernameFromToken(req.token, answer, u)
                     ELSE authorizeAndGetUsername(req.token, answer, u)
       IN  req' = IF asked /\ answer = "throw" THEN Respond(r, 500, "SERVER_ERROR")
                  ELSE IF result.code # "none" THEN Respond(r, result.status, result.code)
                  ELSE [r EXCEPT !.user = result.username, !.pc = "service"]
    /\ UNCHANGED <<privBucket, pubVars>>

\* the handler's call of s3Service or storageService, which is where the
\* storage backends are called
PublicService(net) ==
    /\ Up
    /\ req.pc = "service"
    /\ req' = Respond([req EXCEPT !.storageCalls = @ + 1],
                      IF net = "ok" THEN 200 ELSE 500,
                      IF net = "ok" THEN "none" ELSE "SERVER_ERROR")
    /\ UNCHANGED <<privBucket, pubVars>>

IdentityNext ==
    \/ \E route \in PublicRoutes \cup StorageRoutes, token \in Tokens :
          PublicRequest(route, token)
    \/ \E answer \in AuthAnswers, u \in Users : getAuthorizedUsername(answer, u)
    \/ \E net \in Net : PublicService(net)

SpecIdentity == PrivInit /\ [][IdentityNext]_vars

\* ------------------------------------------------------------ the rename job
\* Keys in the order ListObjectsV2 returns them (UTF-8 binary order).
KeyOrder ==
    << <<"a", "/", "0", ".", "x">>, <<"a", "/", "1", ".", "%78">>,
       <<"a", "/", "2", ".", "x">>, <<"a", "/", "4", ".", "x">>,
       <<"a", "b", "/", "3", ".", "x">> >>

\* Keys a page of a listing holds at most (MaxKeys of ListObjectsV2)
MaxKeys == 2

Rank(k) == CHOOSE i \in 1..Len(KeyOrder) : KeyOrder[i] = k

\* a stored object with its own bytes, content type, cache control and metadata
RenameObj(i) ==
    [bytes |-> i,
     ct |-> IF i = 1 THEN "image/webp" ELSE IF i = 2 THEN "application/pdf"
            ELSE "video/mp4",
     cc |-> IF i = 3 THEN "" ELSE ImmutableCacheControl,
     meta |-> IF i = 4 THEN "m" ELSE ""]

\* the buckets array: name, and the client and bucket it addresses
BucketNames == <<"AWS S3 Public", "AWS S3 Private", "Yandex S3 Public">>

Bucket(b) == CASE b = 1 -> s3Bucket [] b = 2 -> privBucket [] b = 3 -> ys3Bucket

SetBucket(b, content) ==
    /\ s3Bucket' = IF b = 1 THEN content ELSE s3Bucket
    /\ privBucket' = IF b = 2 THEN content ELSE privBucket
    /\ ys3Bucket' = IF b = 3 THEN content ELSE ys3Bucket

\* ListObjectsV2Command: the first MaxKeys keys under the prefix after the
\* continuation token, and a token when keys remain.
ListObjectsV2(bucket, prefix, token) ==
    LET match == {i \in 1..Len(KeyOrder) :
                     /\ i > token
                     /\ KeyOrder[i] \in DOMAIN bucket
                     /\ startsWith(KeyOrder[i], prefix)}
        page  == {i \in match : Cardinality({j \in match : j < i}) < MaxKeys}
    IN  [Contents |-> [n \in 1..Cardinality(page) |->
                          KeyOrder[CHOOSE i \in page :
                                      Cardinality({j \in page : j < i}) = n - 1]],
         NextContinuationToken |-> IF page # match THEN Max(page) ELSE 0]

\* CopyObjectCommand without MetadataDirective: the service's default
MetadataDirective == "COPY"

\* CopyObjectCommand: the service URL-decodes CopySource; with the directive
\* COPY the copy keeps the source's attributes, with REPLACE it takes the
\* request's.
CopyObject(bucket, CopySource, Key, params, net) ==
    IF net = "fail" \/ Malformed(CopySource) THEN [out |-> "error", bucket |-> bucket]
    ELSE LET src == decodeURIComponent(CopySource)
         IN  IF src \notin DOMAIN bucket THEN [out |-> "NoSuchKey", bucket |-> bucket]
             ELSE [out |-> "ok",
                   bucket |-> PutObject(bucket, Key,
                                 IF MetadataDirective = "REPLACE"
                                 THEN [bytes |-> bucket[src].bytes, ct |-> params.ct,
                                       cc |-> params.cc, meta |-> params.meta]
                                 ELSE bucket[src])]

Rejected_Never(out) == FALSE

\* await client.send(...) throws when the command fails
Rejected(out) == out # "ok"

\* the call made, for the record of the job
Op(b, key, op, out) == <<b, key, op, IF out = "ok" THEN "ok" ELSE "fail">>

\* after the try/catch of one object: the next object of the page, the next
\* page, or the end of the bucket
NextObject_OnePage(r) ==
    IF r.i < Len(r.Contents) THEN [r EXCEPT !.pc = "head", !.i = r.i + 1]
    ELSE [r EXCEPT !.continuationToken = r.NextContinuationToken, !.pc = "return"]

NextObject(r) ==
    IF r.i < Len(r.Contents) THEN [r EXCEPT !.pc = "head", !.i = r.i + 1]
    ELSE [r EXCEPT !.continuationToken = r.NextContinuationToken,
                   !.pc = IF r.NextContinuationToken # 0 THEN "list" ELSE "return"]

Caught_Abort(r, message) ==
    [r EXCEPT !.errors = Append(r.errors, message), !.pc = "return"]

\* catch of one object: the error is recorded and the loop goes on
Caught(r, message) == NextObject([r EXCEPT !.errors = Append(r.errors, message)])

renameIdle == <<req, cacheFile, cacheMeta, up, del, get, pops, count, hist, proc, mv>>

renameUserFilesInAllBuckets(oldUsername, newUsername) ==
    /\ Up
    /\ ren.pc = "idle"
    /\ ren' = [IdleRen EXCEPT !.pc = "list", !.oldUsername = oldUsername,
                              !.newUsername = newUsername, !.b = 1,
                              !.orig = <<s3Bucket, privBucket, ys3Bucket>>]
    /\ UNCHANGED <<renameIdle, s3Bucket, privBucket, ys3Bucket>>

\* client.send(listCommand)
renameFilesInBucket_list(net) ==
    /\ Up
    /\ ren.pc = "list"
    /\ LET r == [ren EXCEPT !.ops = @ \cup {Op(ren.b, Undefined, "list", net)}]
           listResponse == ListObjectsV2(Bucket(ren.b), UserPrefix(ren.oldUsername),
                                         ren.continuationToken)
       IN  ren' = IF net = "fail"
                  THEN [r EXCEPT !.errors = Append(r.errors, "Failed to list objects"),
                                 !.pc = "return"]
                  ELSE IF Len(listResponse.Contents) = 0
                  THEN [r EXCEPT !.pc = "return"]
                  ELSE [r EXCEPT !.Contents = listResponse.Contents,
                                 !.NextContinuationToken =
                                     listResponse.NextContinuationToken,
                                 !.i = 1, !.pc = "head",
                                 !.ops = @ \cup {Op(ren.b, listResponse.Contents[n],
                                                    "listed", "ok") :
                                                 n \in 1..Len(listResponse.Contents)}]
    /\ UNCHANGED <<renameIdle, s3Bucket, privBucket, ys3Bucket>>

\* client.send(headCommand)
renameFilesInBucket_head(net) ==
    /\ Up
    /\ ren.pc = "head"
    /\ LET oldKey == ren.Contents[ren.i]
           out == HeadObject(Bucket(ren.b), oldKey, net)
           r == [ren EXCEPT !.ops = @ \cup {Op(ren.b, oldKey, "head", out)}]
       IN  ren' = IF Rejected(out) THEN Caught(r, "Failed to rename")
                  ELSE [r EXCEPT !.headResponse = Bucket(ren.b)[oldKey], !.pc = "copy"]
    /\ UNCHANGED <<renameIdle, s3Bucket, privBucket, ys3Bucket>>

\* client.send(copyCommand)
renameFilesInBucket_copy(net) ==
    /\ Up
    /\ ren.pc = "copy"
    /\ LET oldKey == ren.Contents[ren.i]
           newKey == replace(oldKey, UserPrefix(ren.oldUsername),
                             UserPrefix(ren.newUsername))
           copy == CopyObject(Bucket(ren.b), oldKey, newKey, ren.headResponse, net)
           r == [ren EXCEPT !.ops = @ \cup {Op(ren.b, oldKey, "copy", copy.out)}]
       IN  /\ ren' = IF Rejected(copy.out) THEN Caught(r, "Failed to rename")
                     ELSE [r EXCEPT !.pc = "delete"]
           /\ SetBucket(ren.b, copy.bucket)
    /\ UNCHANGED renameIdle

\* client.send(deleteCommand); filesRenamed++
renameFilesInBucket_delete(net) ==
    /\ Up
    /\ ren.pc = "delete"
    /\ LET oldKey == ren.Contents[ren.i]
           out == IF net = "fail" THEN "error" ELSE "ok"
           r == [ren EXCEPT !.ops = @ \cup {Op(ren.b, oldKey, "delete", out)}]
       IN  /\ ren' = IF Rejected(out) THEN Caught(r, "Failed to rename")
                     ELSE NextObject([r EXCEPT !.filesRenamed = @ + 1])
           /\ SetBucket(ren.b, IF net = "fail" THEN Bucket(ren.b)
                               ELSE DeleteObject(Bucket(ren.b), oldKey))
    /\ UNCHANGED renameIdle

\* return of renameFilesInBucket into the loop over the buckets, and, after
\* the last bucket, the result of the job
renameFilesInBucket_return ==
    /\ Up
    /\ ren.pc = "return"
    /\ LET total == ren.totalFilesRenamed + ren.filesRenamed
           errors == IF Len(ren.errors) > 0
                     THEN Append(ren.allErrors,
                                 [name |-> BucketNames[ren.b], errors |-> ren.errors])
                     ELSE ren.allErrors
       IN  ren' = IF ren.b < Len(BucketNames)
                  THEN [ren EXCEPT !.pc = "list", !.b = ren.b + 1,
                                   !.totalFilesRenamed = total, !.allErrors = errors,
                                   !.filesRenamed = 0, !.errors = <<>>,
                                   !.continuationToken = 0, !.Contents = <<>>,
                                   !.NextContinuationToken = 0, !.i = 0,
                                   !.headResponse = NoObj]
                  ELSE [ren EXCEPT !.pc = "done",
                                   !.totalFilesRenamed = total, !.allErrors = errors,
                                   !.result = [success |-> Len(errors) = 0,
                                               filesRenamed |-> total,
                                               errors |-> errors]]
    /\ UNCHANGED <<renameIdle, s3Bucket, privBucket, ys3Bucket>>

\* What the three buckets (in the order of BucketNames) hold when the job
\* starts.
RenameContents == {<<{1, 2, 3, 5}, {2, 5}, {1, 3, 4}>>,
                   <<{1, 3, 4}, {}, {1, 5}>>,
                   <<{}, {1, 3, 4}, {2, 5}>>}

Stored(S) == [k \in {KeyOrder[i] : i \in S} |-> RenameObj(Rank(k))]

RenameInit ==
    /\ \E S \in RenameContents :
          /\ s3Bucket = Stored(S[1])
          /\ privBucket = Stored(S[2])
          /\ ys3Bucket = Stored(S[3])
    /\ cacheFile = <<>> /\ cacheMeta = <<>>
    /\ req = IdleReq
    /\ PubIdle

RenameNext ==
    \/ \E old \in Users : \E new \in Users \ {old} :
          renameUserFilesInAllBuckets(old, new)
    \/ \E net \in Net : renameFilesInBucket_list(net)
    \/ \E net \in Net : renameFilesInBucket_head(net)
    \/ \E net \in Net : renameFilesInBucket_copy(net)
    \/ \E net \in Net : renameFilesInBucket_delete(net)
    \/ renameFilesInBucket_return

SpecRename == RenameInit /\ [][RenameNext]_vars

\* The job is one async function: each of its awaited calls is answered (the
\* clients time out) and the function goes on.
RenameSteps ==
    \/ \E net \in Net : renameFilesInBucket_list(net)
    \/ \E net \in Net : renameFilesInBucket_head(net)
    \/ \E net \in Net : renameFilesInBucket_copy(net)
    \/ \E net \in Net : renameFilesInBucket_delete(net)
    \/ renameFilesInBucket_return

SpecRenameFair == SpecRename /\ WF_vars(RenameSteps)

\* The rename job next to public reads.  Both public buckets hold the same
\* objects, as uploads leave them; the cache is empty or holds what an earlier
\* getFile of the first key stored.
RenameReadKeys == {KeyOrder[1], <<"a", "b", "/", "0", ".", "x">>}

Cached(S) ==
    /\ cacheFile = [k \in {KeyOrder[i] : i \in S} |-> RenameObj(Rank(k)).bytes]
    /\ cacheMeta = [k \in {KeyOrder[i] : i \in S} |->
                      [ct |-> RenameObj(Rank(k)).ct,
                       len |-> ContentLength(RenameObj(Rank(k))),
                       lm |-> LastModified(RenameObj(Rank(k))), ttl |-> TRUE]]

RenameReadInit ==
    /\ s3Bucket = Stored({1}) /\ ys3Bucket = Stored({1}) /\ privBucket = <<>>
    /\ \E S \in {{}, {1}} : Cached(S)
    /\ req = IdleReq
    /\ PubIdle

RenameReadNext ==
    \/ renameUserFilesInAllBuckets(<<"a">>, <<"a", "b">>)
    \/ RenameSteps
    \/ \E k \in RenameReadKeys, net \in Net : getFile(k, net)
    \/ \E net \in Net : getFile_hgetall(net)
    \/ \E net \in Net, body \in {"throws", "absent"} : getFile_GetObject(net, body)
    \/ \E p \in pops, net \in Net, runtime \in Runtimes :
          cacheFileToRedis_setex(p, net, runtime)
    \/ \E p \in pops, net \in Net, runtime \in Runtimes :
          cacheFileToRedis_hset(p, net, runtime)
    \/ \E p \in pops, net \in Net, runtime \in Runtimes :
          cacheFileToRedis_expire(p, net, runtime)

SpecRenameRead == RenameReadInit /\ [][RenameReadNext]_vars

\* ================================================================ properties
\* K is non-empty and does not start with U + "/"
ForeignKey(U, K) ==
    /\ K # Undefined
    /\ Len(K) > 0
    /\ ~(/\ Len(K) > Len(U)
         /\ \A i \in 1..Len(U) : K[i] = U[i]
         /\ K[Len(U) + 1] = "/")

PrivateDeleteHandled ==
    /\ req.route = "deletePrivate"
    /\ req.user # Undefined
    /\ req.pc \in {"deletePrivateFile_delete", "done"}

\* ------------------------------------------------- the transfer of bar files
\* Some of the extensions isMonetizableFile knows.
mediaExtensions == {"mp4", "pdf"}

\* mediaExtensions.some((ext) => lowerUrl.includes(ext)): the extension may
\* stand anywhere in the URL
isMonetizableFile(url) ==
    \E n \in 1..(Len(url) - 1) :
        url[n] = "." /\ toLowerCase(<<url[n + 1]>>)[1] \in mediaExtensions

\* the origins of the patterns of extractS3KeyFromUrl in the model's environment
TransferOrigins == {CdnOrigin, PrivateCdn}

\* extractS3KeyFromUrl: what follows the origin and "/", null without a match
extractS3KeyFromUrl(url) ==
    IF Len(url) >= 3 /\ url[1] \in TransferOrigins /\ url[2] = "/"
    THEN SubSeq(url, 3, Len(url))
    ELSE Undefined

\* extractFileUrlsFromBarDetails, then the thumbnail is pushed
extractFileUrlsFromBarDetails(details, type) ==
    CASE type = "Video" ->
           IF ~Falsy(details.videoUrl) /\ isMonetizableFile(details.videoUrl)
           THEN <<details.videoUrl>> ELSE <<>>
      [] type = "Text" ->
           IF ~Falsy(details.backgroundImageUrl)
           THEN <<details.backgroundImageUrl>> ELSE <<>>
      [] OTHER -> <<>>

\* The keys of the objects a bar can point at, and the URLs a bar can hold.
TransferKeys == { <<"a", "/", "0", ".", "mp4">>, <<"a", "/", "1", ".", "x">> }

TransferUrls == {PublicUrl(k) : k \in TransferKeys} \cup {Undefined, <<"x">>}

BarDetails == [videoUrl : TransferUrls, backgroundImageUrl : {Undefined, PublicUrl(<<"a", "/", "1", ".", "x">>)}]

\* the loop over fileUrls: the next URL with a key, or the result
NextUrl(m) ==
    LET rest == {n \in (m.i + 1)..Len(m.fileUrls) :
                    extractS3KeyFromUrl(m.fileUrls[n]) # Undefined}
    IN  IF rest = {}
        THEN [m EXCEPT !.pc = "done", !.i = Len(m.fileUrls),
                       !.result = [success |-> TRUE, movedFiles |-> m.movedFiles]]
        ELSE LET n == CHOOSE x \in rest : \A y \in rest : x <= y
             IN  [m EXCEPT !.pc = "head", !.i = n,
                           !.s3Key = extractS3KeyFromUrl(m.fileUrls[n]),
                           !.fileMetadata = NoObj, !.bodyBuffer = 0]

\* moveFileToPrivateBucket returned false: nothing is recorded for the URL
NotMoved(m) == NextUrl(m)

\* moveFileToPrivateBucket returned true
MovedFile(m) == NextUrl([m EXCEPT !.movedFiles = Append(@, m.s3Key)])

TransferOp(m, op, out) == [m EXCEPT !.ops = Append(@, <<op, m.s3Key, out>>)]

transferIdle == <<req, ys3Bucket, cacheFile, cacheMeta, up, del, get, pops, count, hist,
                  proc, ren>>

moveBarFilesToPrivateBucket(barType, barDetails, thumbnail) ==
    /\ Up
    /\ mv.pc = "idle"
    /\ LET fromDetails == extractFileUrlsFromBarDetails(barDetails, barType)
           fileUrls == IF ~Falsy(thumbnail) THEN Append(fromDetails, thumbnail)
                       ELSE fromDetails
       IN  mv' = IF Len(fileUrls) = 0
                 THEN [IdleMv EXCEPT !.pc = "done",
                                     !.result = [success |-> TRUE, movedFiles |-> <<>>]]
                 ELSE NextUrl([IdleMv EXCEPT !.fileUrls = fileUrls])
    /\ UNCHANGED <<transferIdle, s3Bucket, privBucket>>

\* s3Client.send(headCommand): NotFound returns false, any other error is
\* caught by the outer catch, which returns false too
moveFileToPrivateBucket_head(net) ==
    /\ Up
    /\ mv.pc = "head"
    /\ LET out == HeadObject(s3Bucket, mv.s3Key, net)
           m == TransferOp(mv, "head", out)
       IN  mv' = IF out = "ok"
                 THEN [m EXCEPT !.pc = "get", !.fileMetadata = s3Bucket[mv.s3Key]]
                 ELSE NotMoved(m)
    /\ UNCHANGED <<transferIdle, s3Bucket, privBucket>>

\* s3Client.send(getCommand) and streamToBuffer
moveFileToPrivateBucket_get(net) ==
    /\ Up
    /\ mv.pc = "get"
    /\ LET obj == Lookup(s3Bucket, mv.s3Key)
           out == IF net = "fail" \/ obj = NoObj THEN "error" ELSE "ok"
           m == TransferOp(mv, "get", out)
       IN  mv' = IF out = "ok" THEN [m EXCEPT !.pc = "put", !.bodyBuffer = obj.bytes]
                 ELSE NotMoved(m)
    /\ UNCHANGED <<transferIdle, s3Bucket, privBucket>>

\* s3Client.send(putCommand) into the private bucket, under the same key
moveFileToPrivateBucket_put(net) ==
    /\ Up
    /\ mv.pc = "put"
    /\ LET m == TransferOp(mv, "put", IF net = "fail" THEN "error" ELSE "ok")
       IN  /\ mv' = IF net = "fail" THEN NotMoved(m) ELSE [m EXCEPT !.pc = "delete"]
           /\ privBucket' =
                IF net = "fail" THEN privBucket
                ELSE PutObject(privBucket, mv.s3Key,
                               [bytes |-> mv.bodyBuffer, ct |-> mv.fileMetadata.ct,
                                cc |-> IF mv.fileMetadata.cc = ""
                                       THEN ImmutableCacheControl
                                       ELSE mv.fileMetadata.cc])
    /\ UNCHANGED <<transferIdle, s3Bucket>>

\* s3Client.send(deleteCommand) on the public bucket of s3Client; return true
moveFileToPrivateBucket_delete(net) ==
    /\ Up
    /\ mv.pc = "delete"
    /\ LET m == TransferOp(mv, "delete", IF net = "fail" THEN "error" ELSE "ok")
       IN  /\ mv' = IF net = "fail" THEN NotMoved(m) ELSE MovedFile(m)
           /\ s3Bucket' = IF net = "fail" THEN s3Bucket
                          ELSE DeleteObject(s3Bucket, mv.s3Key)
    /\ UNCHANGED <<transferIdle, privBucket>>

\* The transfer next to public reads.  Both public buckets hold the same
\* objects, as uploads leave them; the cache is empty or holds what an earlier
\* getFile stored.
TransferInit ==
    /\ \E S \in SUBSET TransferKeys :
          /\ s3Bucket = [k \in S |-> SeedObj]
          /\ ys3Bucket = [k \in S |-> SeedObj]
          /\ \E SC \in SUBSET S :
                /\ cacheFile = [k \in SC |-> SeedObj.bytes]
                /\ cacheMeta = [k \in SC |-> [ct |-> SeedObj.ct,
                                              len |-> ContentLength(SeedObj),
                                              lm |-> LastModified(SeedObj),
                                              ttl |-> TRUE]]
    /\ PrivIdle
    /\ PubIdle

TransferNext ==
    \/ \E barType \in {"Video", "Text", "Link"}, barDetails \in BarDetails,
          thumbnail \in {Undefined, PublicUrl(<<"a", "/", "1", ".", "x">>)} :
          moveBarFilesToPrivateBucket(barType, barDetails, thumbnail)
    \/ \E net \in Net : moveFileToPrivateBucket_head(net)
    \/ \E net \in Net : moveFileToPrivateBucket_get(net)
    \/ \E net \in Net : moveFileToPrivateBucket_put(net)
    \/ \E net \in Net : moveFileToPrivateBucket_delete(net)
    \/ \E k \in TransferKeys, net \in Net : getFile(k, net)
    \/ \E net \in Net : getFile_hgetall(net)
    \/ \E net \in Net, body \in {"throws", "absent"} : getFile_GetObject(net, body)
    \/ \E p \in pops, net \in Net, runtime \in Runtimes :
          cacheFileToRedis_setex(p, net, runtime)
    \/ \E p \in pops, net \in Net, runtime \in Runtimes :
          cacheFileToRedis_hset(p, net, runtime)
    \/ \E p \in pops, net \in Net, runtime \in Runtimes :
          cacheFileToRedis_expire(p, net, runtime)

SpecTransfer == TransferInit /\ [][TransferNext]_vars

\* C1: a delete, public by URL or private by key, of a non-empty key outside
\* the caller's own prefix is answered 403 and issues no backend call (no
\* head, no delete) and no cache eviction.
C1_ForeignDeleteRejected ==
    /\ (del.pc # "idle" /\ ForeignKey(del.user, del.key)) =>
          /\ del.pc = "done" /\ del.status = 403
          /\ del.d1 = "none" /\ del.d2 = "none" /\ del.evict = "none"
    /\ (PrivateDeleteHandled /\ ForeignKey(req.user, req.queryKey)) =>
          /\ req.pc = "done" /\ req.status = 403
          /\ req.headed = Undefined /\ req.deleted = Undefined

C1_Witness ==
    /\ del.pc = "done" /\ del.status = 403 /\ ForeignKey(del.user, del.key)
    /\ del.key \in DOMAIN s3Bucket /\ del.key \in DOMAIN ys3Bucket
    /\ del.key \in DOMAIN cacheFile
    /\ PrivateDeleteHandled /\ ForeignKey(req.user, req.queryKey)
    /\ req.status = 403 /\ req.queryKey \in DOMAIN privBucket

GateCalls == {"getBarByFileKey", "isBarOwner", "hasUserPurchasedBar", "getActiveSubscriptionInfo"}

\* checkContentAccess has read a file key and finished its calls
GateFinished == req.fileKey # Undefined /\ req.pc \notin GateCalls

Cascade(w) ==
    IF w.bar /\ w.owner THEN "ALLOW"
    ELSE IF w.bar /\ w.purchased THEN "ALLOW"
    ELSE IF w.active THEN "ALLOW"
    ELSE "DENY"

\* C2: when every call is answered, checkContentAccess allows the owner of a
\* found collection, else its purchaser, else an active subscriber, and
\* otherwise denies with 403 SUBSCRIPTION_REQUIRED.
C2_CascadeDecision ==
    (GateFinished /\ req.failed = {}) =>
        /\ req.decision = Cascade(req.world)
        /\ (req.world.bar /\ req.world.owner) => req.positive = {"owner"}
        /\ req.decision = "DENY" =>
              req.pc = "done" /\ req.status = 403 /\ req.code = "SUBSCRIPTION_REQUIRED"

C2_Witness ==
    /\ GateFinished /\ req.failed = {}
    /\ req.world.bar /\ req.world.purchased /\ ~req.world.owner /\ ~req.world.active
    /\ req.decision = "ALLOW"

\* C3: whatever calls of checkContentAccess fail, a failed call counts as a
\* negative answer, the gate ends in ALLOW or in DENY (403), never in a 500,
\* and ALLOW rests on a call that returned a positive answer.
C3_NeverFailsOpen ==
    GateFinished =>
        /\ req.decision \in {"ALLOW", "DENY"}
        /\ req.positive \cap req.failed = {}
        /\ req.decision = "DENY" => req.pc = "done" /\ req.status = 403
        /\ req.decision = "ALLOW" =>
              /\ req.positive \cap {"owner", "purchase", "subscription"} # {}
              /\ req.positive \subseteq {c \in {"owner", "purchase", "subscription"} :
                                           \E i \in 1..Len(req.calls) : req.calls[i] = c}
              /\ "owner" \in req.positive => req.world.owner
              /\ "purchase" \in req.positive => req.world.purchased
              /\ "subscription" \in req.positive => req.world.active

C3_Witness ==
    /\ GateFinished
    /\ req.failed = {"owner", "purchase", "subscription"}
    /\ req.world.owner /\ req.world.purchased /\ req.world.active
    /\ req.decision = "DENY" /\ req.status = 403

GatedRoute == req.route \in {"accessPresign", "metadata"}

\* C4: on the presigned-read and metadata routes a signing call or a head of
\* the private bucket happens, and a 200 is answered, only in a request that
\* was authenticated and whose access decision was ALLOW.
C4_ReadsBehindGate ==
    (GatedRoute /\ (req.signed # Undefined \/ req.headed # Undefined \/ req.status = 200)) =>
        /\ req.token = "valid"
        /\ req.user # Undefined
        /\ req.decision = "ALLOW"

C4_Witness ==
    /\ req.route = "accessPresign"
    /\ req.signed # Undefined /\ req.status = 200 /\ req.decision = "ALLOW"

\* C5: a getFile of a key that starts after deleteFile of that key returned
\* success never returns bytes.
C5_NoBytesAfterDelete ==
    (get.pc = "done" /\ get.afterDelete) => get.res.kind # "ok"

\* C6: deleteFromBothBuckets succeeds only after both backend deletes and the
\* eviction, and at the step that returns success neither cache entry of the
\* key is present.
C6_EvictedAtSuccess ==
    [][(del.pc = "deleting" /\ del'.pc = "done" /\ del'.status = 200) =>
          /\ del.d1 = "ok" /\ del.d2 = "ok" /\ del.evict = "ok"
          /\ del.key \notin DOMAIN cacheFile'
          /\ del.key \notin DOMAIN cacheMeta']_vars

Holds(bucket, r) == r.key \in DOMAIN bucket /\ bucket[r.key] = r.obj

\* C7: an upload answers success with a URL only if both puts succeeded, and
\* every key an upload succeeded for is held by both backends with the same
\* bytes, content-type and cache-control.
C7_SuccessMeansBoth ==
    /\ up.status = 200 => up.put1 = "ok" /\ up.put2 = "ok"
    /\ up.url # Undefined => up.status = 200
    /\ \A r \in hist.uploaded :
          /\ Holds(s3Bucket, r) /\ Holds(ys3Bucket, r)
          /\ s3Bucket[r.key] = ys3Bucket[r.key]
          /\ r.obj.cc = ImmutableCacheControl

C7_Witness ==
    /\ up.pc = "done" /\ up.status = 200 /\ up.url = PublicUrl(up.key)
    /\ [key |-> up.key, obj |-> up.obj] \in hist.uploaded

ExactlyOneFailed == up.pc = "done" /\ {up.put1, up.put2} = {"ok", "fail"}

\* C8: an upload of which exactly one put failed reports failure, and the
\* object stays in the backend whose put succeeded and absent from the other,
\* also when the failure was reported while the other put was in flight.
C8_PartialWriteStays ==
    ExactlyOneFailed =>
        /\ up.status = 500 /\ up.url = Undefined
        /\ up.put1 = "ok" => Holds(s3Bucket, up) /\ up.key \notin DOMAIN ys3Bucket
        /\ up.put2 = "ok" => Holds(ys3Bucket, up) /\ up.key \notin DOMAIN s3Bucket

C8_Witness ==
    /\ ExactlyOneFailed /\ up.inFlight /\ up.status = 500
    /\ up.put1 = "fail" /\ Holds(ys3Bucket, up) /\ up.key \notin DOMAIN s3Bucket

\* C9: a getFile of a key whose upload had returned success, with every call
\* answered, returns the bytes and the content-type that were written.
C9_ReadAfterWrite ==
    (get.pc = "done" /\ get.expect # NoObj /\ ~get.netFail) =>
        /\ get.res.kind = "ok"
        /\ get.res.bytes = get.expect.bytes
        /\ get.res.ct = get.expect.ct

Minus(f, key) == [k \in DOMAIN f \ {key} |-> f[k]]

\* an authorized public delete has finished with every call answered
DeleteAnswered == del.pc = "done" /\ del.pre # <<>> /\ ~del.netFail

\* C10: a delete of a key of the caller's own prefix succeeds whether or not
\* a backend holds the key, and leaves backends and cache as they were less
\* that key, so a second delete of the key succeeds and changes nothing.
C10_DeleteIdempotent ==
    DeleteAnswered =>
        /\ del.status = 200
        /\ s3Bucket = Minus(del.pre[1], del.key)
        /\ ys3Bucket = Minus(del.pre[2], del.key)
        /\ cacheFile = Minus(del.pre[3], del.key)
        /\ cacheMeta = Minus(del.pre[4], del.key)
        /\ del.again =>
              /\ s3Bucket = del.pre[1] /\ ys3Bucket = del.pre[2]
              /\ cacheFile = del.pre[3] /\ cacheMeta = del.pre[4]

C10_Witness ==
    /\ DeleteAnswered /\ del.again /\ del.status = 200
    /\ del.key \notin DOMAIN del.pre[1] /\ del.key \notin DOMAIN del.pre[2]

\* C11: a getFile that misses the cache and whose read of yandexS3 finds no
\* object for the key answers FILE_NOT_FOUND (404), not a server error.
C11_MissingIsNotFound ==
    (get.pc = "done" /\ get.read = "missing") => get.res.kind = "notfound"

\* C12: a getFile of a key whose byte entry and metadata entry with a
\* content-type are in the cache returns the cached bytes and content-type and
\* never reads a backend.
C12_CacheHitFastPath ==
    (get.hit /\ ~get.netFail) =>
        /\ get.pc \in {"hgetall", "done"}
        /\ get.read = "none"
        /\ get.pc = "done" =>
              /\ get.res.kind = "ok" /\ get.res.fromCache
              /\ get.res.bytes = cacheFile[get.key]
              /\ get.res.ct = cacheMeta[get.key].ct

C12_Witness ==
    /\ get.pc = "done" /\ get.hit /\ ~get.netFail
    /\ get.res.fromCache /\ get.res.bytes = get.expect.bytes

\* getFile found the byte entry and then no content-type in the metadata entry
BytesWithoutContentType ==
    /\ get.pc = "done" /\ ~get.netFail
    /\ get.cached # 0 /\ get.cachedCt = ""

\* C13: a getFile that finds the byte entry but no content-type in the
\* metadata entry reads the backend, and nothing is served from the cache
\* without a non-empty content-type.
C13_NoHitWithoutContentType ==
    /\ (get.pc = "done" /\ get.res.fromCache) => get.res.kind = "ok" /\ get.res.ct # ""
    /\ BytesWithoutContentType => ~get.res.fromCache /\ get.read # "none"

C13_Witness ==
    /\ BytesWithoutContentType
    /\ get.key \in DOMAIN cacheFile /\ get.key \notin DOMAIN cacheMeta
    /\ get.read = "found" /\ get.res.kind = "ok" /\ get.res.bytes = get.cached

\* C14: a failed write of the detached cache population leaves the result of
\* the getFile that started it as it was and never stops the service.
C14_PopulationFailureSwallowed ==
    /\ Up
    /\ (get.pc = "done" /\ get.read = "found") => get.res.kind = "ok"

\* the ceilings of the upload classes, in bytes
Ceiling(class) ==
    CASE class = "image" -> 5242880
      [] class = "audio" -> 104857600
      [] class = "video" -> 104857600
      [] class = "file"  -> 15728640

FailsValidation ==
    \/ up.file.size > Ceiling(up.class)
    \/ up.file.mimetype \notin allowedTypes(up.class)

\* C15: an upload of any class whose size exceeds the class ceiling or whose
\* mimetype is outside the class allow-list is answered 400 before any put,
\* so the backends hold keys of validated uploads only; an allowed mimetype at
\* exactly the ceiling is not rejected by validation.
C15_ValidationBeforePut ==
    /\ DOMAIN s3Bucket \cup DOMAIN ys3Bucket \subseteq hist.issued
    /\ cacheFile = <<>> /\ cacheMeta = <<>>
    /\ up.pc # "idle" =>
          /\ FailsValidation =>
                /\ up.pc = "done" /\ up.status = 400
                /\ up.code \in {"BAD_REQUEST", "BARS_INVALID_FILE_TYPE"}
                /\ up.put1 = "none" /\ up.put2 = "none"
                /\ up.key = Undefined
          /\ ~FailsValidation =>
                /\ up.status # 400
                /\ up.class # "image" => up.put1 # "none" /\ up.put2 # "none"

C15_Witness ==
    /\ up.pc = "done" /\ up.status = 400 /\ up.class = "video"
    /\ up.file.size = Ceiling("video") + 1 /\ up.file.mimetype = "video/webm"
    /\ up.put1 = "none" /\ up.put2 = "none"
    /\ DOMAIN s3Bucket # {} /\ DOMAIN s3Bucket = DOMAIN ys3Bucket

CallsMade == {req.calls[i] : i \in 1..Len(req.calls)}

\* what the subscription check answered: a failed check answers no
SubscriptionDecision ==
    IF req.world.active /\ "subscription" \notin req.failed THEN "ALLOW" ELSE "DENY"

\* C16: when the purchase check fails, checkContentAccess goes on to the
\* subscription check and decides as that check answers; the request does not
\* end in a server error.
C16_PurchaseFailureFallsThrough ==
    "purchase" \in req.failed =>
        /\ "purchase" \notin req.positive
        /\ req.pc = "getActiveSubscriptionInfo" \/ "subscription" \in CallsMade
        /\ "subscription" \in CallsMade =>
              /\ req.calls = <<"bar", "owner", "purchase", "subscription">>
              /\ req.decision = SubscriptionDecision
              /\ req.decision = "DENY" => req.pc = "done" /\ req.status = 403

C16_Witness ==
    /\ "purchase" \in req.failed /\ req.world.purchased /\ req.world.active
    /\ req.failed = {"purchase"}
    /\ req.positive = {"subscription"} /\ req.decision = "ALLOW"

\* the collection lookup found nothing, or failed and so answered null
NoCollection == ~req.world.bar \/ "bar" \in req.failed

\* C17: when the collection lookup returns none, checkContentAccess issues
\* neither the owner check nor the purchase check and decides on the
\* subscription alone.
C17_NoCollectionSubscriptionOnly ==
    ("bar" \in CallsMade /\ NoCollection) =>
        /\ "owner" \notin CallsMade /\ "purchase" \notin CallsMade
        /\ req.pc = "getActiveSubscriptionInfo" \/ req.calls = <<"bar", "subscription">>
        /\ GateFinished =>
              /\ req.decision = SubscriptionDecision
              /\ req.decision = "DENY" => req.pc = "done" /\ req.status = 403

C17_Witness ==
    /\ GateFinished /\ req.failed = {}
    /\ ~req.world.bar /\ req.world.owner /\ req.world.purchased /\ ~req.world.active
    /\ req.calls = <<"bar", "subscription">>
    /\ req.decision = "DENY" /\ req.status = 403

\* K is U, a "/" and a name without "/"
KeyOfUser(U, K) ==
    /\ Len(K) > Len(U) + 1
    /\ \A i \in 1..Len(U) : K[i] = U[i]
    /\ K[Len(U) + 1] = "/"
    /\ \A i \in (Len(U) + 2)..Len(K) : K[i] # "/"

\* the keys whose object a step creates, overwrites or removes
Touched(b, c) ==
    {k \in DOMAIN b \cup DOMAIN c :
        \/ (k \in DOMAIN b) # (k \in DOMAIN c)
        \/ k \in DOMAIN b /\ k \in DOMAIN c /\ b[k] # c[k]}

\* C18: every key an upload or a presigned upload of user U generates is U/
\* and a generated filename, and every step of a request of U creates,
\* overwrites or removes objects under U/ only, in every bucket.
C18_OwnPrefixOnly ==
    [][/\ up'.key # Undefined => KeyOfUser(up'.user, up'.key)
       /\ (req'.route = "uploadPresign" /\ req'.signed # Undefined) =>
             KeyOfUser(req'.user, req'.signed)
       /\ \A k \in Touched(s3Bucket, s3Bucket') \cup Touched(ys3Bucket, ys3Bucket') :
             \/ up' # up /\ KeyOfUser(up.user, k)
             \/ del' # del /\ KeyOfUser(del.user, k)
       /\ \A k \in Touched(privBucket, privBucket') : KeyOfUser(req.user, k)]_vars

C18_Witness ==
    /\ up.pc = "done" /\ up.status = 200 /\ up.user = <<"a">>
    /\ del.pc = "done" /\ del.status = 200 /\ del.user = <<"a">>
    /\ del.key = <<"a", "/", "0", ".", "x">> /\ del.key \in DOMAIN del.pre[1]
    /\ <<"a", "b", "/", "0", ".", "x">> \in DOMAIN s3Bucket \cap DOMAIN ys3Bucket
    /\ up.key \in DOMAIN s3Bucket /\ del.key \notin DOMAIN s3Bucket

\* the objects of the buckets for which the job made call op with outcome out
RenOps(op, out) == {<<o[1], o[2]>> : o \in {x \in ren.ops : x[3] = op /\ x[4] = out}}

\* head, copy and delete all succeeded
Renamed == RenOps("head", "ok") \cap RenOps("copy", "ok") \cap RenOps("delete", "ok")

FailedOps == {o \in ren.ops : o[4] = "fail"}

\* the number of errors the result reports for bucket b
ErrorsOf(b) ==
    LET at == {n \in 1..Len(ren.result.errors) :
                  ren.result.errors[n].name = BucketNames[b]}
    IN  IF at = {} THEN 0 ELSE Len(ren.result.errors[CHOOSE n \in at : TRUE].errors)

\* C19: when the rename job returns, every bucket was listed, every object of
\* every page listed was attempted whatever failed before it, every failed
\* call is an error of its bucket in the result, filesRenamed counts the
\* objects whose head, copy and delete all succeeded over the three buckets,
\* and success is true exactly when no call failed.
C19_RenameBestEffort ==
    ren.pc = "done" =>
        /\ \A b \in 1..Len(BucketNames) : \E o \in ren.ops : o[1] = b /\ o[3] = "list"
        /\ RenOps("listed", "ok") \subseteq RenOps("head", "ok") \cup RenOps("head", "fail")
        /\ \A b \in 1..Len(BucketNames) :
              ErrorsOf(b) = Cardinality({o \in FailedOps : o[1] = b})
        /\ ren.result.filesRenamed = Cardinality(Renamed)
        /\ ren.result.success <=> FailedOps = {}
        /\ ren.result.success <=> Len(ren.result.errors) = 0

C19_Witness ==
    /\ ren.pc = "done"
    /\ ~ren.result.success
    /\ <<1, KeyOrder[1], "copy", "fail">> \in ren.ops
    /\ <<1, KeyOrder[3]>> \in Renamed
    /\ <<2, Undefined, "list", "fail">> \in ren.ops
    /\ <<3, KeyOrder[1]>> \in Renamed
    /\ ren.result.filesRenamed = 2

\* C20: while and after the rename job runs, every object that was under the
\* old prefix is, with its bytes, content type, cache control and metadata,
\* under its old key or under its new key; its old key is gone only when its
\* copy succeeded, and a copy that succeeded holds the source's bytes,
\* content type, cache control and metadata.
C20_RenameKeepsContent ==
    ren.pc # "idle" =>
        \A b \in 1..Len(BucketNames) : \A k \in DOMAIN ren.orig[b] :
            startsWith(k, UserPrefix(ren.oldUsername)) =>
                LET newKey == replace(k, UserPrefix(ren.oldUsername),
                                      UserPrefix(ren.newUsername))
                    atOld == k \in DOMAIN Bucket(b) /\ Bucket(b)[k] = ren.orig[b][k]
                    atNew == /\ newKey \in DOMAIN Bucket(b)
                             /\ Bucket(b)[newKey] = ren.orig[b][k]
                IN  /\ atOld \/ atNew
                    /\ k \notin DOMAIN Bucket(b) => <<b, k>> \in RenOps("copy", "ok")
                    /\ <<b, k>> \in RenOps("copy", "ok") => atNew

C20_Witness ==
    /\ ren.pc = "done" /\ ren.oldUsername = <<"a">>
    /\ ren.orig[1] = Stored({1, 2, 3, 5})
    /\ KeyOrder[3] \notin DOMAIN s3Bucket
    /\ <<"a", "b", "/", "2", ".", "x">> \in DOMAIN s3Bucket
    /\ s3Bucket[<<"a", "b", "/", "2", ".", "x">>] = RenameObj(3)
    /\ <<1, KeyOrder[1], "delete", "fail">> \in ren.ops
    /\ KeyOrder[1] \in DOMAIN s3Bucket
    /\ <<1, KeyOrder[2], "copy", "fail">> \in ren.ops
    /\ KeyOrder[2] \in DOMAIN s3Bucket

\* a presigned URL was issued
Issued(route) == req.pc = "done" /\ req.status = 200 /\ req.route = route

\* signed for the private bucket and this key, for exactly one hour
SignedFor(op, key) ==
    req.sig = [op |-> op, Bucket |-> PrivateBucket, Key |-> key, expiresIn |-> 3600]

\* the returned URL has the CDN host, the key as its path and the signed
\* URL's query string
Rewritten(key) ==
    /\ search(req.signedUrl) # <<>>
    /\ req.presignedUrl = <<PrivateCdn, "/">> \o key \o search(req.signedUrl)

C22_ErrorsCarryCode ==
    /\ (up.pc = "done" /\ up.status >= 400) => up.code # "none"
    /\ (get.pc = "done" /\ get.res.status >= 400) =>
          get.res.code # "none" /\ get.res.message # "none"
    /\ (get.pc = "done" /\ get.netFail) =>
          get.res.status = 500 /\ get.res.code = "SERVER_ERROR"

\* an image went through compressImage, which produced an output
Compressed == up.class = "image" /\ up.buffer # "none" /\ up.compressedLength > 0

\* C23: in uploadImage the original bytes are stored with the original
\* mimetype when the compressed output is as large as the original or larger,
\* and the compressed bytes only when it is strictly smaller.
C23_KeepsOriginalUnlessSmaller ==
    Compressed =>
        IF up.compressedLength >= up.file.size
        THEN up.buffer = "original" /\ up.obj.ct = up.file.mimetype
        ELSE up.buffer = "compressed"

\* the subscription check of this request answered "active"
SubscriptionActive ==
    /\ "subscription" \in {req.calls[i] : i \in 1..Len(req.calls)}
    /\ "subscription" \in req.positive
    /\ req.world.active /\ "subscription" \notin req.failed

\* C24: on the presigned-upload route a signing call is made only for an
\* authenticated user whose subscription check answered active in this
\* request; without a user the request is answered with an error and nothing
\* is signed, and an inactive subscription or a failed billing call is
\* answered 403 SUBSCRIPTION_REQUIRED with no signing call.
C24_PresignNeedsSubscription ==
    req.route = "uploadPresign" =>
        /\ (req.signCalls > 0 \/ req.pc = "generateUploadPresignedUrl" \/ req.status = 200) =>
              req.token = "valid" /\ req.user \in Users /\ SubscriptionActive
        /\ req.user = Undefined =>
              /\ req.signCalls = 0 /\ req.calls = <<>>
              /\ req.pc = "done" => req.status \in {401, 404, 500}
        /\ (req.user # Undefined /\ req.pc = "done" /\ ~SubscriptionActive) =>
              /\ req.status = 403 /\ req.code = "SUBSCRIPTION_REQUIRED"
              /\ req.signCalls = 0 /\ req.signed = Undefined

C24_Witness ==
    /\ req.route = "uploadPresign" /\ req.pc = "done" /\ req.user \in Users
    /\ req.world.active /\ "subscription" \in req.failed
    /\ req.status = 403 /\ req.signCalls = 0

\* the orders in which checkContentAccess may have issued its calls so far
CallOrders ==
    { <<>>, <<"bar">>, <<"bar", "owner">>, <<"bar", "owner", "purchase">>,
      <<"bar", "owner", "purchase", "subscription">>, <<"bar", "subscription">> }

\* C25: checkContentAccess issues its calls in the order collection lookup,
\* owner check, purchase check, subscription check; no call follows a check
\* that answered positively; and the gate ends either in one next() (ALLOW)
\* with no response of its own, or in one error response (403, 400, 401 or
\* 500) without next(), never both and never neither.
C25_OrderedShortCircuit ==
    (GatedRoute /\ req.user # Undefined) =>
        /\ req.calls \in CallOrders
        /\ \A i \in 1..Len(req.calls) : req.calls[i] \in req.positive => i = Len(req.calls)
        /\ req.nexts <= 1 /\ req.sent <= 1
        /\ req.pc \in GateCalls \cup {"checkContentAccess"} => req.nexts = 0 /\ req.sent = 0
        /\ req.pc \notin GateCalls \cup {"checkContentAccess"} =>
              \/ /\ req.nexts = 1 /\ req.decision = "ALLOW"
                 /\ req.positive # {}
                 /\ req.sent = IF req.pc = "done" THEN 1 ELSE 0
              \/ /\ req.nexts = 0 /\ req.sent = 1 /\ req.pc = "done"
                 /\ req.status \in {400, 401, 403, 500}
                 /\ req.status = 403 <=> req.decision = "DENY"

C25_Witness ==
    /\ req.route = "metadata" /\ req.pc = "getFileMetadata"
    /\ req.calls = <<"bar", "owner", "purchase">> /\ req.positive = {"purchase"}
    /\ req.world.active /\ "owner" \in req.failed
    /\ req.nexts = 1 /\ req.sent = 0

\* a retrieval of the key that reads the backend and no cache
Bypass(key) ==
    LET obj == IF Malformed(key) THEN NoObj
               ELSE Lookup(ys3Bucket, decodeURIComponent(key))
    IN  IF obj = NoObj THEN [kind |-> "none"]
        ELSE [kind |-> "ok", bytes |-> obj.bytes,
              ct |-> IF obj.ct = "" THEN "application/octet-stream" ELSE obj.ct,
              len |-> ContentLength(obj), lm |-> LastModified(obj)]

\* C26: with uploads and reads only, whatever the cache holds (nothing, one
\* entry of the two, entries without TTL, entries of any interleaving of
\* populations) and whatever it has lost, a getFile whose calls are answered
\* returns the bytes, content type, content length and last-modified date that
\* a read of the backend returns at that moment, and fails where that fails.
C26_CacheTransparent ==
    [][(get.pc # "done" /\ get'.pc = "done" /\ ~get'.netFail) =>
          LET direct == Bypass(get'.key)
          IN  IF direct.kind = "ok"
              THEN /\ get'.res.kind = "ok"
                   /\ get'.res.bytes = direct.bytes /\ get'.res.ct = direct.ct
                   /\ get'.res.len = direct.len /\ get'.res.lm = direct.lm
              ELSE get'.res.kind \in {"error", "notfound"}]_vars

C26_Witness ==
    /\ get.pc = "done" /\ ~get.netFail /\ get.res.kind = "ok" /\ get.res.fromCache
    /\ count.get = MaxGets
    /\ get.key \in DOMAIN cacheMeta /\ ~cacheMeta[get.key].ttl
    /\ get.res.len = ContentLength(ys3Bucket[get.key])
    /\ get.res.lm = LastModified(ys3Bucket[get.key])
    /\ get.key \notin DOMAIN s3Bucket

\* no population of key k is still running
PopulationFinished(k) == \A p \in pops : p.key # k

\* C27: once the populations of a key have finished, whichever of their writes
\* failed, every cache entry of the key has a TTL (the byte entry is only ever
\* written by setex, so it always has one; the metadata entry gets its TTL
\* from the expire that follows the hset).
C27_EveryEntryExpires ==
    \A k \in DOMAIN cacheMeta : (Up /\ PopulationFinished(k)) => cacheMeta[k].ttl

\* the keys of bucket b that were under the old prefix when the job started
OldKeys(b) == {k \in DOMAIN ren.orig[b] : startsWith(k, UserPrefix(ren.oldUsername))}

\* the key with the old prefix exchanged for the new one, the rest unchanged
Moved(k) == UserPrefix(ren.newUsername) \o
            SubSeq(k, Len(ren.oldUsername) + 2, Len(k))

\* C28: the rename job, once called, returns; and when it returns with no
\* call having failed, in each of the three buckets no key under the old
\* prefix is left, every object that was under it is under the new prefix
\* with the rest of its key unchanged, whatever the number of listing pages,
\* and filesRenamed is the number of those objects over the three buckets.
C28_RenameCompletes ==
    /\ [](ren.pc = "done" /\ FailedOps = {} =>
            /\ \A b \in 1..Len(BucketNames) :
                  /\ \A k \in DOMAIN Bucket(b) : ~startsWith(k, UserPrefix(ren.oldUsername))
                  /\ \A k \in OldKeys(b) :
                        Moved(k) \in DOMAIN Bucket(b) /\ Bucket(b)[Moved(k)] = ren.orig[b][k]
            /\ ren.result.filesRenamed =
                  Cardinality(OldKeys(1)) + Cardinality(OldKeys(2)) + Cardinality(OldKeys(3))
            /\ ren.result.success)
    /\ (ren.pc = "list" ~> ren.pc = "done")

C28_Witness ==
    /\ ren.pc = "done" /\ FailedOps = {} /\ ren.oldUsername = <<"a">>
    /\ ren.orig[1] = Stored({1, 3, 4}) /\ ren.orig[3] = Stored({1, 5})
    /\ ren.result.filesRenamed = 4
    /\ DOMAIN s3Bucket = {Moved(KeyOrder[1]), Moved(KeyOrder[3]), Moved(KeyOrder[4])}

\* a request to a public or storage route was answered after the identity
\* resolver was asked
Resolved(answers) ==
    /\ req.route \in PublicRoutes \cup StorageRoutes
    /\ req.pc = "done"
    /\ req.answer \in answers

\* C29: on the public upload and delete routes and the storage usage and
\* list routes, a request for which the identity resolver answers
\* unauthorized is rejected with the unauthorized / invalid-token error, one
\* for which it answers not found or a user without username is rejected with
\* the profile-not-found error, and in both cases no storage call is made.
C29_IdentityErrorsDistinct ==
    /\ Resolved({"unauthorized"}) =>
          /\ req.code \in {"AUTH_USER_NOT_EXIST", "BASE_INVALID_ACCESS_TOKEN"}
          /\ req.storageCalls = 0
    /\ Resolved({"not_found", "no_username"}) =>
          /\ req.code = "PROFILE_NOTFOUND"
          /\ req.storageCalls = 0

\* C30: on the private metadata route and the presigned-read route, a request
\* that is served (metadata headed, or a URL signed) is served for the key on
\* which checkContentAccess computed its decision, also when the request
\* carries one key in its body and another in its path.
C30_DecidedKeyIsServedKey ==
    /\ (req.route = "metadata" /\ req.headed # Undefined) => req.headed = req.fileKey
    /\ (req.route = "accessPresign" /\ req.signed # Undefined) => req.signed = req.fileKey

\* C31: a getFile of a key that starts after a replicated delete of that key
\* has answered, success or failure, and has removed the object from the read
\* backend, never returns the object's bytes from the cache.
C31_NoCachedBytesAfterRemoval ==
    (get.pc = "done" /\ get.afterRemoval # "none") =>
        ~(get.res.kind = "ok" /\ get.res.fromCache)

\* C32: a getFile that starts after the rename job returned and counted an
\* object as renamed answers not-found for the object's old key, never its
\* bytes, also when the cache held the object before the rename; and for its
\* new key it answers the object's bytes.
C32_ReadsFollowRename ==
    /\ (get.pc = "done" /\ get.afterRename = "old") =>
          /\ get.res.kind # "ok"
          /\ ~get.netFail => get.res.kind = "notfound"
    /\ (get.pc = "done" /\ get.afterRename = "new" /\ ~get.netFail) =>
          /\ get.res.kind = "ok"
          /\ get.res.bytes =
                ren.orig[3][replace(get.key, UserPrefix(ren.newUsername),
                                    UserPrefix(ren.oldUsername))].bytes

\* C33: a getFile that starts after the transfer returned and named a key in
\* movedFiles never returns the object's bytes, from the public bucket it
\* reads or from the cache; and a key is named in movedFiles only if its put
\* to the private bucket and then its delete from the public bucket were
\* both answered ok.
C33_MovedIsNoLongerPublic ==
    /\ (get.pc = "done" /\ get.afterMove) => get.res.kind # "ok"
    /\ \A n \in 1..Len(mv.movedFiles) :
          \E i, j \in 1..Len(mv.ops) :
              /\ i < j
              /\ mv.ops[i] = <<"put", mv.movedFiles[n], "ok">>
              /\ mv.ops[j] = <<"delete", mv.movedFiles[n], "ok">>

\* C34: in uploadImage the content-type stored with the object describes
\* the stored bytes in every branch of compressImage: image/webp when the
\* stored bytes are the WebP conversion, and the uploaded mimetype when they
\* are the uploaded bytes or the re-compressed GIF.
C34_ContentTypeMatchesBytes ==
    (up.class = "image" /\ up.format # "none") =>
        /\ up.format = "webp" => up.obj.ct = "image/webp"
        /\ up.format # "webp" => up.obj.ct = up.file.mimetype

\* a private delete of a key of the caller's own prefix was answered
OwnPrivateDelete ==
    /\ req.route = "deletePrivate" /\ req.pc = "done"
    /\ ~Falsy(req.queryKey) /\ req.user # Undefined /\ OwnsKey(req.user, req.queryKey)

\* C35: deletePrivateFile for a key of the caller's own prefix that the
\* private bucket does not hold answers FILE_NOT_FOUND (404) and issues no
\* delete call (the head call being answered); a delete call is issued only
\* after a head call found the object, and success is answered only after
\* the delete call succeeded.
C35_HeadBeforeDelete ==
    /\ (/\ OwnPrivateDelete
        /\ req.deleted = Undefined /\ req.queryKey \notin DOMAIN privBucket
        /\ req.s3Calls # <<>> /\ req.s3Calls[1][2] # "error") =>
          /\ req.status = 404 /\ req.code = "FILE_NOT_FOUND"
          /\ req.s3Calls = << <<"HeadObject", "NotFound">> >>
    /\ req.route = "deletePrivate" =>
          /\ \A n \in 1..Len(req.s3Calls) :
                req.s3Calls[n][1] = "DeleteObject" =>
                    n = 2 /\ req.s3Calls[1] = <<"HeadObject", "ok">>
          /\ req.status = 200 =>
                /\ req.s3Calls = << <<"HeadObject", "ok">>, <<"DeleteObject", "ok">> >>
                /\ req.queryKey \notin DOMAIN privBucket

C35_Witness ==
    /\ OwnPrivateDelete
    /\ req.queryKey \notin DOMAIN privBucket /\ req.deleted = Undefined
    /\ req.status = 404 /\ req.code = "FILE_NOT_FOUND"
    /\ req.s3Calls = << <<"HeadObject", "NotFound">> >>
    /\ DOMAIN privBucket # {}

\* C36: a getFile that starts after a getFile of the same key missed the
\* cache, read the object and had its population complete without error (no
\* delete and no expiry in between) is served from the cache without a
\* backend call, whatever the object, also one without a content type.
C36_SecondReadIsCached ==
    (get.pc = "done" /\ get.afterPopulation /\ ~get.netFail) =>
        /\ get.res.kind = "ok" /\ get.res.fromCache
        /\ get.read = "none"

=============================================================================
